---- MODULE Spec2Model ----
(***************************************************************************)
(* idadwarf: DWARF DIE traversal, per-offset DIE cache, type handlers and  *)
(* structural comparators, modelled from src/src/idadwarf.cpp and          *)
(* src/src/type_utils.cpp.                                                 *)
(*                                                                         *)
(* Specifications of this module:                                          *)
(*   Spec       the plugin run: process_cus / do_dies_traversal /          *)
(*              try_visit_die with its nested out-of-band resolution,      *)
(*              then do_second_pass                                        *)
(*   SpecCache  arbitrary sequences of DieHolder cache operations          *)
(*   SpecEnum   EnumCmp::equal applied to bounded inputs                   *)
(*   SpecStruc  StrucCmp::equal applied to bounded inputs                  *)
(***************************************************************************)
EXTENDS Integers, Sequences, FiniteSets, TLC

VARIABLES
  dies,      \* the decoded DIEs, by offset (read-only libdwarf data)
  cus,       \* sequence of compilation unit root offsets
  cache,     \* DieHolder::m_dies_node: offset -> die_cache
  types,     \* host numbered types (idati), index = ordinal
  consts,    \* host enum constants
  members,   \* host structure members
  queue,     \* do_dies_traversal: the worklist
  stack,     \* active try_visit_die invocations, innermost last
  tpc,       \* position of run()/process_cus/do_dies_traversal
  cuIdx,     \* process_cus: index of the current compilation unit
  cur,       \* do_dies_traversal: the DIE held by 'holder'
  spIdx,     \* do_second_pass: CachedDieIterator::m_current_idx
  trace,     \* history: offsets in order of tag-specific handler entry
  returned,  \* history: offsets for which a try_visit_die has returned
  ret,       \* history: the last try_visit_die return
  popped,    \* history: DIEs popped from the worklist
  examined,  \* history: offsets examined by do_second_pass, in order
  overflow,  \* the call stack outgrew MaxDepth (runaway recursion)
  firstMark, \* history (SpecCache): first effective cache_type per offset
  lastOp,    \* history (SpecCache): the last cache operation
  cmp,       \* SpecEnum / SpecStruc: comparator input and result
  dup,       \* SpecDup: the duplicate-insert call in progress
  fv,        \* SpecFrame, SpecLabel: the frame_retrieval.cpp call under study
  heap       \* SpecHeap: libdwarf allocations held through a DieHolder

vars == <<dies, cus, cache, types, consts, members, queue, stack, tpc, cuIdx,
          cur, spIdx, trace, returned, ret, popped, examined, overflow,
          firstMark, lastOp, cmp, dup, fv, heap>>

----------------------------------------------------------------------------
(* Bounds *)

\* call stack depth after which the model stops following a recursion
MaxDepth == 6
\* SpecCache: number of offsets, largest ordinal
NumCacheOffsets == 3
MaxOrdinal == 1
\* SpecEnum / SpecStruc: largest number of enumerator / member children
MaxKids == 2
\* SpecDup: the database holds entries named T, T_, T__, ... up to
\* MaxChain of them; number of duplicate-insert calls in a row
MaxChain == 3
MaxCalls == 2
\* SpecFrame: width of sval_t, largest number of frame-base areas
SvalBits == 4
MaxAreas == 2
\* SpecHeap: largest number of location descriptions of a location list,
\* number of accessor calls on a holder
MaxLocs == 2
MaxOps == 3

----------------------------------------------------------------------------
(* Constants of the program *)

NULL == ""
BADNODE == -1
DIE_USELESS == "DIE_USELESS"
DIE_TYPE == "DIE_TYPE"
DIE_VAR == "DIE_VAR"
\* no supval stored for the offset (supval returns -1)
NoEntry == [type |-> "none", ordinal |-> 0, second_pass |-> FALSE]

----------------------------------------------------------------------------
(* DieHolder cache operations *)

in_cache(c, o) == c[o].type # "none"

get_cache(c, o) == in_cache(c, o)

get_cache_type(c, o) == get_cache(c, o) /\ c[o].type = DIE_TYPE

cache_useless_always(c, o) ==
  [c EXCEPT ![o] = [type |-> DIE_USELESS, ordinal |-> 0, second_pass |-> FALSE]]

cache_useless(c, o) ==
  IF ~in_cache(c, o)
  THEN [c EXCEPT ![o] = [type |-> DIE_USELESS, ordinal |-> 0, second_pass |-> FALSE]]
  ELSE c

cache_type_always(c, o, ordinal, second_pass) ==
  [c EXCEPT ![o] = [type |-> DIE_TYPE, ordinal |-> ordinal,
                    second_pass |-> second_pass]]

cache_type(c, o, ordinal, second_pass) ==
  LET do_cache == ~(get_cache(c, o) /\ c[o].type # DIE_USELESS)
  IN IF do_cache
     THEN [c EXCEPT ![o] = [type |-> DIE_TYPE, ordinal |-> ordinal,
                            second_pass |-> second_pass]]
     ELSE c

----------------------------------------------------------------------------
(* The decoded DIEs (libdwarf's view of .debug_info) *)

\* an attribute that the DIE does not carry
NoAttr == -99
\* DW_AT_type: 0 = attribute absent, BadForm = a form get_ref_from_attr
\* does not support, n > 0 = reference to offset n
BadForm == -1

\* one DIE; byte_size, encoding, const_value, data_member_location,
\* upper_bound and declaration are attributes, sibFail / childFail say
\* that dwarf_siblingof / dwarf_child answer DW_DLV_ERROR on this DIE
D(tag, name, type, kids) ==
  [tag |-> tag, name |-> name, type |-> type, kids |-> kids,
   byte_size |-> 4, enc |-> "DW_ATE_signed", val |-> NoAttr, moff |-> NoAttr,
   upper |-> NoAttr, decl |-> FALSE, sibFail |-> FALSE, childFail |-> FALSE]

Enumerator(name, val) == [D("DW_TAG_enumerator", name, 0, <<>>) EXCEPT !.val = val]

Member(name, type, moff) == [D("DW_TAG_member", name, type, <<>>) EXCEPT !.moff = moff]

Subrange(upper) == [D("DW_TAG_subrange_type", NULL, 0, <<>>) EXCEPT !.upper = upper]

Offsets == DOMAIN dies

\* dwarf_offdie succeeds
die_exists(o) == o \in Offsets

\* the parent's child list holding o, <<>> for a compilation unit DIE
SiblingsOf(o) ==
  IF \E p \in Offsets : \E i \in DOMAIN dies[p].kids : dies[p].kids[i] = o
  THEN LET p == CHOOSE p \in Offsets : \E i \in DOMAIN dies[p].kids : dies[p].kids[i] = o
       IN dies[p].kids
  ELSE <<>>

\* dwarf_siblingof: the next sibling, 0 for DW_DLV_NO_ENTRY
sibling_of(o) ==
  LET sibs == SiblingsOf(o)
  IN IF \E i \in DOMAIN sibs : sibs[i] = o /\ i < Len(sibs)
     THEN LET i == CHOOSE i \in DOMAIN sibs : sibs[i] = o IN sibs[i + 1]
     ELSE 0

\* dwarf_child: the first child, 0 for DW_DLV_NO_ENTRY
child_of(o) == IF dies[o].kids = <<>> THEN 0 ELSE dies[o].kids[1]

\* DieChildIterator::set_current_child: from the j-th child of o on, the
\* index of the first child with the tag; 0 at the end of the children,
\* -1 when get_sibling throws on a child that is skipped
RECURSIVE set_current_child(_, _, _)
set_current_child(o, tag, j) ==
  IF j > Len(dies[o].kids) THEN 0
  ELSE IF dies[dies[o].kids[j]].tag = tag THEN j
  ELSE IF dies[dies[o].kids[j]].sibFail THEN -1
  ELSE set_current_child(o, tag, j + 1)

\* DieChildIterator constructor (get_child may throw)
iter_begin(o, tag) ==
  IF dies[o].childFail THEN -1 ELSE set_current_child(o, tag, 1)

\* DieChildIterator::operator++ from the j-th child (get_sibling may throw)
iter_next(o, tag, j) ==
  IF dies[dies[o].kids[j]].sibFail THEN -1 ELSE set_current_child(o, tag, j + 1)

----------------------------------------------------------------------------
(* The host type database (IDA): numbered types, enums, structures *)

\* an ordinal handed out by alloc_type_ordinal and not yet set
Unset == [name |-> NULL, ty |-> <<>>]

\* type_t strings are sequences of bytes; a byte is the set of the flag
\* names or-ed into it
Byte(flags) == <<flags>>

NameUsed(t, name) == \E i \in DOMAIN t : t[i].name = name /\ t[i].ty # <<>>

\* get_named_type: the ordinal of the type of that name, 0 when not found
get_named_type(t, name) ==
  IF NameUsed(t, name)
  THEN CHOOSE i \in DOMAIN t : t[i].name = name /\ t[i].ty # <<>>
  ELSE 0

get_numbered_type_name(t, ordinal) ==
  IF ordinal \in DOMAIN t THEN t[ordinal].name ELSE NULL

get_numbered_type(t, ordinal) == ordinal \in DOMAIN t /\ t[ordinal].ty # <<>>

\* get_simple_type without the typcmp of the found type
get_simple_type_by_name(t, name, ida_type) ==
  IF name # NULL THEN get_named_type(t, name) ELSE 0

\* get_simple_type: the ordinal of the existing type of that name and
\* those bytes, 0 for "return false"
get_simple_type(t, name, ida_type) ==
  IF name # NULL
  THEN LET existing_ordinal == get_named_type(t, name)
       IN IF existing_ordinal # 0 /\ t[existing_ordinal].ty = ida_type
          THEN existing_ordinal ELSE 0
  ELSE 0

\* set_numbered_type without NTF_REPLACE fails on a name that is taken
set_numbered_type_ok(t, name) == name = NULL \/ ~NameUsed(t, name)

\* one pass of the while(!saved) body of set_simple_die_type
set_simple_iter(t, alloced_ordinal, new_name, ida_type) ==
  IF set_numbered_type_ok(t, new_name)
  THEN [types |-> [t EXCEPT ![alloced_ordinal] = [name |-> new_name, ty |-> ida_type]],
        ordinal |-> alloced_ordinal, saved |-> TRUE, new_name |-> new_name]
  ELSE LET appended == new_name \o "_"
           existing == get_simple_type(t, appended, ida_type)
       IN [types |-> t, ordinal |-> IF existing # 0 THEN existing ELSE alloced_ordinal,
           saved |-> existing # 0, new_name |-> appended]

\* the while(!saved) loop of set_simple_die_type
RECURSIVE set_simple_loop(_, _, _, _)
set_simple_loop(t, alloced_ordinal, new_name, ida_type) ==
  LET r == set_simple_iter(t, alloced_ordinal, new_name, ida_type)
  IN IF r.saved
     THEN [types |-> r.types, ordinal |-> r.ordinal, saved |-> TRUE]
     ELSE set_simple_loop(t, alloced_ordinal, r.new_name, ida_type)

set_simple_die_type(t, name, ida_type) ==
  LET existing == get_simple_type(t, name, ida_type)
  IN IF existing # 0
     THEN [types |-> t, ordinal |-> existing, saved |-> TRUE]
     ELSE set_simple_loop(Append(t, Unset), Len(t) + 1, name, ida_type)

\* add_enum / add_struc: BADNODE when the name is taken, else a new entity
\* whose id is its type ordinal; a NULL name gets a default name
add_entity(t, name, kind, prefix) ==
  IF name # NULL /\ NameUsed(t, name)
  THEN [types |-> t, id |-> BADNODE]
  ELSE LET id == Len(t) + 1
           nm == IF name = NULL THEN prefix \o ToString(id) ELSE name
       IN [types |-> Append(t, [name |-> nm, ty |-> Byte({kind})]), id |-> id]

add_enum(t, name) == add_entity(t, name, "BTF_ENUM", "enum_")

add_struc(t, name) == add_entity(t, name, "BTF_STRUCT", "struc_")

is_type_enum(ty) == ty # <<>> /\ "BTF_ENUM" \in ty[1]

is_type_struct(ty) == ty # <<>> /\ "BTF_STRUCT" \in ty[1]

\* get_enum: the enum of that name, BADNODE when there is none
get_enum(t, name) ==
  LET o == get_named_type(t, name)
  IN IF o # 0 /\ is_type_enum(t[o].ty) THEN o ELSE BADNODE

\* get_enum_type_ordinal: 0 for BADNODE
get_enum_type_ordinal(enum_id) == IF enum_id = BADNODE THEN 0 ELSE enum_id

\* static_cast<uval_t>(Dwarf_Signed)
UvalBits == 8
to_uval(v) == v % (2 ^ UvalBits)

\* add_const: constant names are unique in the whole database
add_const(k, enum_id, name, value) ==
  IF enum_id = BADNODE \/ \E c \in k : c.n = name
  THEN k
  ELSE k \cup {[e |-> enum_id, n |-> name, v |-> value]}

\* for_all_consts + visit_const: the {name: value} map of an enum
enum_consts(k, enum_id) == {[n |-> c.n, v |-> c.v] : c \in {x \in k : x.e = enum_id}}

\* get_const_enum(get_const_by_name(name))
get_const_enum_by_name(k, name) ==
  IF \E c \in k : c.n = name THEN (CHOOSE c \in k : c.n = name).e ELSE BADNODE

\* Dwarf_Small get_member_offset(): the operand cut to an unsigned char
to_small(v) == v % 256

\* get_type_size0 answers BADSIZE for a void type
has_size(ty) == ty # <<>> /\ "BTF_VOID" \notin ty[1]

\* add_struc_member (+ set_member_tinfo): refused when the structure
\* already has a member of that name or at that offset
add_struc_member(m, sid, name, moffset, ordinal) ==
  IF \E x \in m : x.s = sid /\ (x.n = name \/ x.o = moffset)
  THEN m
  ELSE m \cup {[s |-> sid, n |-> name, o |-> moffset, t |-> ordinal]}

----------------------------------------------------------------------------
(* EnumCmp *)

EnumCmp_by_name(t, k, enum_name) ==
  LET id == IF enum_name # NULL THEN get_enum(t, enum_name) ELSE BADNODE
  IN [m_enum_id |-> id,
      m_consts |-> IF id # BADNODE THEN enum_consts(k, id) ELSE {},
      exc |-> FALSE]

\* find the enum by its first constant name (anonymous enumeration)
EnumCmp_by_die(t, k, o) ==
  LET j == iter_begin(o, "DW_TAG_enumerator")
  IN IF j = -1 THEN [m_enum_id |-> BADNODE, m_consts |-> {}, exc |-> TRUE]
     ELSE IF j = 0 THEN [m_enum_id |-> BADNODE, m_consts |-> {}, exc |-> FALSE]
     ELSE LET id == get_const_enum_by_name(k, dies[dies[o].kids[j]].name)
          IN [m_enum_id |-> id,
              m_consts |-> IF id # BADNODE THEN enum_consts(k, id) ELSE {},
              exc |-> FALSE]

\* EnumCmp::find: is there a constant of that name with that value
EnumCmp_find(m_consts, name, value) ==
  \E c \in m_consts : c.n = name /\ c.v = value

\* the erase done by a successful find
EnumCmp_erase(m_consts, name, value) == m_consts \ {[n |-> name, v |-> value]}

\* the for loop of EnumCmp::equal, iterator at the j-th child
RECURSIVE EnumCmp_equal_loop(_, _, _)
EnumCmp_equal_loop(m_consts, o, j) ==
  IF j = -1 THEN [ret |-> FALSE, exc |-> TRUE]
  ELSE IF j = 0 THEN [ret |-> m_consts = {}, exc |-> FALSE]
  ELSE LET child == dies[dies[o].kids[j]]
       IN IF child.val = NoAttr THEN [ret |-> FALSE, exc |-> TRUE]
          ELSE IF EnumCmp_find(m_consts, child.name, to_uval(child.val))
          THEN EnumCmp_equal_loop(EnumCmp_erase(m_consts, child.name, to_uval(child.val)),
                                  o, iter_next(o, "DW_TAG_enumerator", j))
          ELSE [ret |-> m_consts = {}, exc |-> FALSE]

EnumCmp_equal(c, o) ==
  IF c.m_enum_id # BADNODE
  THEN EnumCmp_equal_loop(c.m_consts, o, iter_begin(o, "DW_TAG_enumerator"))
  ELSE [ret |-> FALSE, exc |-> FALSE]

----------------------------------------------------------------------------
(* StrucCmp *)

is_union(t, struc_id) == "BTF_UNION" \in t[struc_id].ty[1]

\* get_struc_id: the structure or union of that name
get_struc_id(t, name) ==
  LET o == get_named_type(t, name)
  IN IF o # 0 /\ (is_type_struct(t[o].ty) \/ "BTF_UNION" \in t[o].ty[1])
     THEN o ELSE BADNODE

\* add_all_members: the buffer is sized from the "struct.field" length
\* minus the structure name length; get_member_name fills it
member_name_buf(struc_name, field) ==
  LET len == (Len(struc_name) + 1 + Len(field)) - Len(struc_name)
  IN IF len > Len(field) THEN field ELSE "?"

StrucCmp_add_all_members(t, m, struc_id, m_is_union) ==
  {[n |-> member_name_buf(t[struc_id].name, x.n),
    o |-> IF m_is_union THEN 0 ELSE x.o] : x \in {y \in m : y.s = struc_id}}

StrucCmp_by_name(t, m, struc_name) ==
  LET id == IF struc_name # NULL THEN get_struc_id(t, struc_name) ELSE BADNODE
      u == id # BADNODE /\ is_union(t, id)
  IN [m_struc_id |-> id, m_is_union |-> u,
      m_members |-> IF id # BADNODE THEN StrucCmp_add_all_members(t, m, id, u) ELSE {}]

StrucCmp_try_erase(m_members, name, offset) ==
  IF \E x \in m_members : x.n = name /\ x.o = offset
  THEN m_members \ {[n |-> name, o |-> offset]}
  ELSE m_members

\* the for loop of StrucCmp::equal, iterator at the j-th child
RECURSIVE StrucCmp_equal_loop(_, _, _, _)
StrucCmp_equal_loop(m_members, m_is_union, o, j) ==
  IF j = -1 THEN [ret |-> FALSE, exc |-> TRUE]
  ELSE IF j = 0 THEN [ret |-> m_members = {}, exc |-> FALSE]
  ELSE LET member == dies[dies[o].kids[j]]
       IN IF ~m_is_union /\ member.moff = NoAttr THEN [ret |-> FALSE, exc |-> TRUE]
          ELSE StrucCmp_equal_loop(
                 StrucCmp_try_erase(m_members, member.name,
                                    IF m_is_union THEN 0 ELSE member.moff),
                 m_is_union, o, iter_next(o, "DW_TAG_member", j))

StrucCmp_equal(c, o) ==
  LET die_is_union == dies[o].tag = "DW_TAG_union_type"
  IN IF c.m_members # {} /\ c.m_is_union = die_is_union /\ c.m_struc_id # BADNODE
     THEN StrucCmp_equal_loop(c.m_members, c.m_is_union, o, iter_begin(o, "DW_TAG_member"))
     ELSE [ret |-> FALSE, exc |-> FALSE]

----------------------------------------------------------------------------
(* add_dup_enum / add_dup_struc *)

\* add_struc(BADADDR, name, is_union)
add_struc_kind(t, name, union) ==
  add_entity(t, name, IF union THEN "BTF_UNION" ELSE "BTF_STRUCT", "struc_")

\* add_dup_enum retrying under the name it already tried
add_dup_enum_iter_same_name(t, k, o, new_name) ==
  LET enum_cmp == EnumCmp_by_name(t, k, new_name)
      eq == EnumCmp_equal(enum_cmp, o)
  IN IF eq.exc THEN [types |-> t, id |-> BADNODE, new_name |-> new_name, exc |-> TRUE]
     ELSE IF eq.ret
     THEN [types |-> t, id |-> enum_cmp.m_enum_id, new_name |-> new_name, exc |-> FALSE]
     ELSE LET added == add_enum(t, new_name)
          IN [types |-> added.types, id |-> added.id, new_name |-> new_name, exc |-> FALSE]

\* one pass of the while(enum_id == BADNODE) body of add_dup_enum
add_dup_enum_iter(t, k, o, new_name) ==
  LET appended == new_name \o "_"
      enum_cmp == EnumCmp_by_name(t, k, appended)
      eq == EnumCmp_equal(enum_cmp, o)
  IN IF eq.exc THEN [types |-> t, id |-> BADNODE, new_name |-> appended, exc |-> TRUE]
     ELSE IF eq.ret
     THEN [types |-> t, id |-> enum_cmp.m_enum_id, new_name |-> appended, exc |-> FALSE]
     ELSE LET added == add_enum(t, appended)
          IN [types |-> added.types, id |-> added.id, new_name |-> appended, exc |-> FALSE]

\* one pass of the while(struc_id == BADNODE) body of add_dup_struc
add_dup_struc_iter(t, m, o, new_name) ==
  LET appended == new_name \o "_"
      struc_cmp == StrucCmp_by_name(t, m, appended)
      eq == StrucCmp_equal(struc_cmp, o)
  IN IF eq.exc THEN [types |-> t, id |-> BADNODE, new_name |-> appended, exc |-> TRUE]
     ELSE IF eq.ret
     THEN [types |-> t, id |-> struc_cmp.m_struc_id, new_name |-> appended, exc |-> FALSE]
     ELSE LET added == add_struc_kind(t, appended, dies[o].tag = "DW_TAG_union_type")
          IN [types |-> added.types, id |-> added.id, new_name |-> appended, exc |-> FALSE]

----------------------------------------------------------------------------
(* Type handlers.  A handler works on the record                          *)
(*   [cache, types, consts, members, marks]                               *)
(* (marks counts the cache_type / cache_useless calls made on the DIE     *)
(* being handled) and answers [s, out, f]: the record after the handler   *)
(* ran up to its next try_visit_die call (out = "call", f.ref the DIE to  *)
(* visit), its return (out = "return") or its throw (out = "throw").      *)

Frame(o) == [off |-> o, pc |-> "call", ref |-> 0, j |-> 0, sid |-> 0,
             sp |-> FALSE, marks |-> 0]

Return(S, f) == [s |-> S, out |-> "return", f |-> f]
Throw(S, f) == [s |-> S, out |-> "throw", f |-> f]
Call(S, f, pc, ref) ==
  [s |-> S, out |-> "call", f |-> [f EXCEPT !.pc = pc, !.ref = ref, !.marks = S.marks]]

\* die_holder.cache_type(...) / die_holder.cache_useless() on the handled DIE
own_cache_type(S, o, ordinal, second_pass) ==
  [S EXCEPT !.cache = cache_type(@, o, ordinal, second_pass), !.marks = @ + 1]

own_cache_useless(S, o) ==
  [S EXCEPT !.cache = cache_useless(@, o), !.marks = @ + 1]

\* the enumerator loop of process_enum, iterator at the j-th child
RECURSIVE process_enum_loop(_, _, _, _)
process_enum_loop(S, o, enum_id, j) ==
  IF j = -1 THEN [s |-> S, exc |-> TRUE]
  ELSE IF j = 0 THEN [s |-> S, exc |-> FALSE]
  ELSE LET k == dies[o].kids[j]
           child == dies[k]
       IN IF child.val = NoAttr THEN [s |-> S, exc |-> TRUE]
          ELSE process_enum_loop(
                 [S EXCEPT !.consts = add_const(@, enum_id, child.name, to_uval(child.val)),
                           !.cache = cache_useless(@, k)],
                 o, enum_id, iter_next(o, "DW_TAG_enumerator", j))

process_enum(S, f) ==
  LET o == f.off
      name == dies[o].name
      enum_cmp == IF name # NULL THEN EnumCmp_by_name(S.types, S.consts, name)
                  ELSE EnumCmp_by_die(S.types, S.consts, o)
      eq == EnumCmp_equal(enum_cmp, o)
  IN IF enum_cmp.exc \/ eq.exc THEN Throw(S, f)
     ELSE IF eq.ret
     THEN Return(own_cache_type(S, o, get_enum_type_ordinal(enum_cmp.m_enum_id), FALSE), f)
     ELSE IF dies[o].byte_size = NoAttr THEN Throw(S, f)
     ELSE LET added == add_enum(S.types, name)
              lp == process_enum_loop([S EXCEPT !.types = added.types], o, added.id,
                                      iter_begin(o, "DW_TAG_enumerator"))
          IN IF lp.exc THEN Throw(lp.s, f)
             ELSE Return(own_cache_type(lp.s, o, get_enum_type_ordinal(added.id), FALSE), f)

\* the integer width switch of process_base_type
int_width(byte_size) ==
  CASE byte_size = 1 -> "BT_INT8" [] byte_size = 2 -> "BT_INT16"
    [] byte_size = 4 -> "BT_INT32" [] byte_size = 8 -> "BT_INT64"
    [] byte_size = 16 -> "BT_INT128" [] OTHER -> "BT_INT"

\* the encoding switch of process_base_type; <<>> = ida_type left empty
base_ida_type(encoding, byte_size) ==
  CASE encoding = "DW_ATE_boolean" ->
         Byte({"BT_BOOL",
               CASE byte_size = 1 -> "BTMT_BOOL1" [] byte_size = 2 -> "BTMT_BOOL2"
                 [] byte_size = 4 -> "BTMT_BOOL4" [] OTHER -> "BTMT_DEFBOOL"})
    [] encoding = "DW_ATE_float" ->
         Byte({"BT_FLOAT"} \cup
              (CASE byte_size = 2 -> {"BTMT_SHRTFLT"} [] byte_size = 4 -> {"BTMT_FLOAT"}
                 [] byte_size = 8 -> {"BTMT_DOUBLE"} [] byte_size = 10 -> {"BTMT_LNGDBL"}
                 [] OTHER -> {}))
    [] encoding = "DW_ATE_signed" -> Byte({"BTMT_SIGNED", int_width(byte_size)})
    [] encoding = "DW_ATE_unsigned" -> Byte({"BTMT_USIGNED", int_width(byte_size)})
    [] encoding = "DW_ATE_unsigned_char" -> Byte({"BTMT_USIGNED", "BT_INT8", "BTMT_CHAR"})
    [] encoding = "DW_ATE_signed_char" -> Byte({"BTMT_SIGNED", "BT_INT8", "BTMT_CHAR"})
    [] OTHER -> <<>>

process_base_type(S, f) ==
  LET o == f.off
      ida_type == base_ida_type(dies[o].enc, dies[o].byte_size)
  IN IF dies[o].byte_size = NoAttr \/ dies[o].enc = "none" THEN Throw(S, f)
     ELSE IF ida_type # <<>>
     THEN LET r == set_simple_die_type(S.types, dies[o].name, ida_type)
          IN Return(own_cache_type([S EXCEPT !.types = r.types], o, r.ordinal, FALSE), f)
     ELSE Return(own_cache_useless(S, o), f)

add_unspecified_type(t) == set_simple_die_type(t, "void", Byte({"BTF_VOID"}))

process_unspecified(S, f) ==
  Return([S EXCEPT !.types = add_unspecified_type(@).types], f)

\* process_typed_modifier registering the new type under the name of the
\* referenced type, the suffix left out
process_typed_modifier_no_suffix(S, f, type_ordinal) ==
  LET o == f.off
      type_name == get_numbered_type_name(S.types, type_ordinal)
      ok == get_numbered_type(S.types, type_ordinal)
  IN IF type_name = NULL \/ ~ok THEN Return(own_cache_useless(S, o), f)
     ELSE LET type == S.types[type_ordinal].ty
              tag == dies[o].tag
              new_type == CASE tag = "DW_TAG_const_type" ->
                                 [type EXCEPT ![1] = @ \cup {"BTM_CONST"}]
                            [] tag = "DW_TAG_volatile_type" ->
                                 [type EXCEPT ![1] = @ \cup {"BTM_VOLATILE"}]
                            [] OTHER -> Byte({"BT_PTR"}) \o type
              r == set_simple_die_type(S.types, type_name, new_type)
          IN Return(own_cache_type([S EXCEPT !.types = r.types], o, r.ordinal, FALSE), f)

process_typed_modifier(S, f, type_ordinal) ==
  LET o == f.off
      type_name == get_numbered_type_name(S.types, type_ordinal)
      ok == get_numbered_type(S.types, type_ordinal)
  IN IF type_name = NULL \/ ~ok THEN Return(own_cache_useless(S, o), f)
     ELSE LET type == S.types[type_ordinal].ty
              tag == dies[o].tag
              new_type == CASE tag = "DW_TAG_const_type" ->
                                 [type EXCEPT ![1] = @ \cup {"BTM_CONST"}]
                            [] tag = "DW_TAG_volatile_type" ->
                                 [type EXCEPT ![1] = @ \cup {"BTM_VOLATILE"}]
                            [] OTHER -> Byte({"BT_PTR"}) \o type
              new_name == CASE tag = "DW_TAG_const_type" -> type_name \o " const"
                            [] tag = "DW_TAG_volatile_type" -> type_name \o " volatile"
                            [] OTHER -> type_name \o " *"
              r == set_simple_die_type(S.types, new_name, new_type)
          IN Return(own_cache_type([S EXCEPT !.types = r.types], o, r.ordinal, FALSE), f)

process_typed_typedef(S, f, type_ordinal) ==
  LET o == f.off
      type_name == get_numbered_type_name(S.types, type_ordinal)
  IN IF type_name = NULL THEN Return(own_cache_useless(S, o), f)
     ELSE LET new_type == <<{"BTF_TYPEDEF"}, {type_name}>>
              r == set_simple_die_type(S.types, dies[o].name, new_type)
          IN Return(own_cache_type([S EXCEPT !.types = r.types], o, r.ordinal, FALSE), f)

\* look_ref_type up to its try_visit_die(new_die): out = "found" when the
\* type is known without a nested visit, "call" when new_die is to be
\* visited, "throw" when get_ref_from_attr or DieHolder(dbg, offset) throws
look_ref_type(S, f) ==
  LET o == f.off
  IN IF dies[o].type = 0
     THEN LET r == add_unspecified_type(S.types)
          IN [out |-> "found", s |-> [S EXCEPT !.types = r.types], ordinal |-> r.ordinal]
     ELSE IF dies[o].type = BadForm \/ ~die_exists(dies[o].type)
     THEN [out |-> "throw", s |-> S, ordinal |-> 0]
     ELSE [out |-> "call", s |-> S, ordinal |-> 0]

process_modifier(S, f) ==
  LET r == look_ref_type(S, f)
  IN CASE r.out = "found" -> process_typed_modifier(r.s, f, r.ordinal)
       [] r.out = "throw" -> Throw(S, f)
       [] OTHER -> Call(S, f, "ref", dies[f.off].type)

process_typedef(S, f) ==
  LET r == look_ref_type(S, f)
  IN CASE r.out = "found" -> process_typed_typedef(r.s, f, r.ordinal)
       [] r.out = "throw" -> Throw(S, f)
       [] OTHER -> Call(S, f, "ref", dies[f.off].type)

\* look_ref_type after try_visit_die(new_die) returned, and the rest of
\* process_modifier
resume_modifier(S, f) ==
  IF get_cache_type(S.cache, f.ref)
  THEN process_typed_modifier(S, f, S.cache[f.ref].ordinal)
  ELSE Return(S, f)

resume_typedef(S, f) ==
  IF get_cache_type(S.cache, f.ref)
  THEN process_typed_typedef(S, f, S.cache[f.ref].ordinal)
  ELSE Return(S, f)

\* process_array up to its try_visit_die(new_die)
process_array(S, f) ==
  LET o == f.off
  IN IF dies[o].type = 0 \/ dies[o].type = BadForm \/ ~die_exists(dies[o].type)
     THEN Throw(S, f)
     ELSE Call(S, f, "ref", dies[o].type)

\* build_array_type
array_type(type, size) == <<{"BT_ARRAY"}, {ToString(size)}>> \o type

\* the name built in the ostringstream
array_name(type_name, size) ==
  type_name \o "[" \o (IF size > 0 THEN ToString(size) ELSE "") \o "]"

\* process_array after try_visit_die(new_die) returned
resume_array(S, f) ==
  LET o == f.off
      ordinal == S.cache[f.ref].ordinal
  IN IF ~get_cache_type(S.cache, f.ref) THEN Return(own_cache_useless(S, o), f)
     ELSE IF get_numbered_type_name(S.types, ordinal) = NULL
             \/ ~get_numbered_type(S.types, ordinal)
     THEN Return(own_cache_useless(S, o), f)
     ELSE LET j == iter_begin(o, "DW_TAG_subrange_type")
          IN IF j = -1 THEN Throw(S, f)
             ELSE LET upper == IF j = 0 THEN NoAttr ELSE dies[dies[o].kids[j]].upper
                      size == IF upper = NoAttr THEN 0 ELSE upper
                      r == set_simple_die_type(
                             S.types,
                             array_name(get_numbered_type_name(S.types, ordinal), size),
                             array_type(S.types[ordinal].ty, size))
                  IN Return(own_cache_type([S EXCEPT !.types = r.types], o, r.ordinal, FALSE), f)

\* the tail of process_structure
structure_done(S, f, ordinal) ==
  IF ordinal # 0
  THEN Return(own_cache_type(S, f.off, ordinal, f.sp), f)
  ELSE Return(own_cache_useless(S, f.off), f)

\* process_complete_structure with the member iterator at the j-th child,
\* up to try_visit_die(new_die) for that member
structure_member(S, f, j) ==
  IF j = -1 THEN Throw(S, f)
  ELSE IF j = 0 THEN structure_done(S, f, f.sid)
  ELSE LET member == dies[dies[f.off].kids[j]]
       IN IF member.type = 0 \/ member.type = BadForm \/ ~die_exists(member.type)
             \/ member.moff = NoAttr
          THEN Throw(S, f)
          ELSE Call(S, [f EXCEPT !.j = j], "member", member.type)

\* process_structure that takes every structure for a complete one
process_structure_no_declaration(S, f) ==
  LET added == add_struc(S.types, dies[f.off].name)
  IN IF added.id = BADNODE THEN structure_done(S, f, 0)
     ELSE structure_member([S EXCEPT !.types = added.types],
                           [f EXCEPT !.sid = added.id],
                           iter_begin(f.off, "DW_TAG_member"))

process_structure(S, f) ==
  LET o == f.off
      name == dies[o].name
  IN IF dies[o].decl
     THEN LET r == set_simple_die_type(S.types, name, Byte({"BTF_VOID"}))
          IN structure_done([S EXCEPT !.types = r.types], f, r.ordinal)
     ELSE LET added == add_struc(S.types, name)
          IN IF added.id = BADNODE THEN structure_done(S, f, 0)
             ELSE structure_member([S EXCEPT !.types = added.types],
                                   [f EXCEPT !.sid = added.id], 
                                   iter_begin(o, "DW_TAG_member"))

\* resume_member without *second_pass = true
resume_member_never_pending(S, f) ==
  LET member == dies[dies[f.off].kids[f.j]]
      ok == get_cache_type(S.cache, f.ref)
      ordinal == S.cache[f.ref].ordinal
      attach == ok /\ get_numbered_type_name(S.types, ordinal) # NULL
                   /\ get_numbered_type(S.types, ordinal)
                   /\ has_size(S.types[ordinal].ty)
      S1 == IF attach
            THEN [S EXCEPT !.members = add_struc_member(@, f.sid, member.name,
                                                        to_small(member.moff), ordinal)]
            ELSE S
  IN structure_member(S1, f, iter_next(f.off, "DW_TAG_member", f.j))

\* process_complete_structure after try_visit_die(new_die) returned for
\* the j-th child: attach the member, step to the next one
resume_member(S, f) ==
  LET member == dies[dies[f.off].kids[f.j]]
      ok == get_cache_type(S.cache, f.ref)
      ordinal == S.cache[f.ref].ordinal
      attach == ok /\ get_numbered_type_name(S.types, ordinal) # NULL
                   /\ get_numbered_type(S.types, ordinal)
                   /\ has_size(S.types[ordinal].ty)
      S1 == IF attach
            THEN [S EXCEPT !.members = add_struc_member(@, f.sid, member.name,
                                                        to_small(member.moff), ordinal)]
            ELSE S
      f1 == IF ok THEN f ELSE [f EXCEPT !.sp = TRUE]
  IN structure_member(S1, f1, iter_next(f.off, "DW_TAG_member", f.j))

----------------------------------------------------------------------------
(* The DIE trees the run is checked on *)

CU(kids) == D("DW_TAG_compile_unit", NULL, 0, kids)
Base(name) == D("DW_TAG_base_type", name, 0, <<>>)
Ref(tag, type) == D(tag, NULL, type, <<>>)
Struct(name, kids) == D("DW_TAG_structure_type", name, 0, kids)
Enum(name, kids) == D("DW_TAG_enumeration_type", name, 0, kids)

\* base type, modifiers, typedef, array, unspecified type
U_types ==
  [cus |-> <<1>>,
   dies |-> << CU(<<2, 3, 4, 5, 6, 8, 9, 10, 11>>),
               Base("int"),
               Ref("DW_TAG_const_type", 2),
               Ref("DW_TAG_pointer_type", 3),
               D("DW_TAG_typedef", "myint", 2, <<>>),
               D("DW_TAG_array_type", NULL, 2, <<7>>),
               Subrange(9),
               D("DW_TAG_unspecified_type", "decltype(nullptr)", 0, <<>>),
               Ref("DW_TAG_pointer_type", 0),
               Ref("DW_TAG_pointer_type", 8),
               Ref("DW_TAG_volatile_type", 8) >>]

\* two enumerations of the same name, the second with value v for B
U_enum(v) ==
  [cus |-> <<1>>,
   dies |-> << CU(<<2, 5>>),
               Enum("E", <<3, 4>>), Enumerator("A", 1), Enumerator("B", 2),
               Enum("E", <<6, 7>>), Enumerator("A", 1), Enumerator("B", v) >>]

\* anonymous enumerations, an enumerator without a value, an enumeration
\* without a byte size
U_enum_anon ==
  [cus |-> <<1>>,
   dies |-> << CU(<<2, 4, 6, 8>>),
               Enum(NULL, <<3>>), Enumerator("A", 1),
               Enum(NULL, <<5>>), Enumerator("A", 1),
               Enum("F", <<7>>), Enumerator("C", NoAttr),
               [Enum("G", <<9>>) EXCEPT !.byte_size = NoAttr], Enumerator("H", -1) >>]

\* struct name { int v; struct name *next; }
U_self(name) ==
  [cus |-> <<1>>,
   dies |-> << CU(<<2, 5, 6>>),
               Struct(name, <<3, 4>>), Member("v", 6, 0), Member("next", 5, 4),
               Ref("DW_TAG_pointer_type", 2),
               Base("int") >>]

\* struct A { struct B *b; }; struct B { struct A *a; };
U_mutual(a, b) ==
  [cus |-> <<1>>,
   dies |-> << CU(<<2, 4, 6, 7>>),
               Struct(a, <<3>>), Member("b", 6, 0),
               Struct(b, <<5>>), Member("a", 7, 0),
               Ref("DW_TAG_pointer_type", 4),
               Ref("DW_TAG_pointer_type", 2) >>]

\* a member type defined later, a declared-only structure, two
\* compilation units, a subprogram with children
U_fwd ==
  [cus |-> <<1, 9>>,
   dies |-> << CU(<<2, 4, 5, 6>>),
               Struct("S", <<3>>), Member("t", 4, 0),
               Base("int"),
               [Struct("T", <<>>) EXCEPT !.decl = TRUE],
               D("DW_TAG_subprogram", "main", 4, <<7, 8>>),
               D("DW_TAG_variable", "x", 2, <<>>),
               Struct("U", <<11>>),
               CU(<<10>>),
               D("DW_TAG_typedef", "u_t", 8, <<>>),
               Member("d", 5, 0) >>]

\* DIEs whose attributes are missing or not decodable
U_faulty ==
  [cus |-> <<1>>,
   dies |-> << CU(<<2, 3, 4, 5, 6, 8, 10, 11>>),
               [Base("short") EXCEPT !.byte_size = NoAttr],
               Ref("DW_TAG_pointer_type", BadForm),
               Ref("DW_TAG_const_type", 99),
               D("DW_TAG_array_type", NULL, 0, <<>>),
               Struct("P", <<7>>), Member("m", 0, 0),
               Struct("Q", <<9>>), Member("m", 10, NoAttr),
               [Base("addr") EXCEPT !.enc = "DW_ATE_address"],
               Ref("DW_TAG_pointer_type", 2) >>]

\* a declared-only structure that has a member child and is the target of
\* a pointer
U_decl ==
  [cus |-> <<1>>,
   dies |-> << CU(<<2, 4, 5>>),
               [Struct("T", <<3>>) EXCEPT !.decl = TRUE], Member("m", 4, 0),
               Base("int"),
               Ref("DW_TAG_pointer_type", 2) >>]

\* arrays of int: upper bound 9, upper bound 0, a subrange without upper
\* bound, no subrange
U_arrays ==
  [cus |-> <<1>>,
   dies |-> << CU(<<2, 3, 5, 7, 9>>),
               Base("int"),
               D("DW_TAG_array_type", NULL, 2, <<4>>), Subrange(9),
               D("DW_TAG_array_type", NULL, 2, <<6>>), Subrange(0),
               D("DW_TAG_array_type", NULL, 2, <<8>>), Subrange(NoAttr),
               D("DW_TAG_array_type", NULL, 2, <<>>) >>]

\* chains of modifiers, one of them over a base type defined after it
U_modifiers ==
  [cus |-> <<1>>,
   dies |-> << CU(<<2, 3, 4, 5, 6, 7, 8>>),
               Base("int"),
               Ref("DW_TAG_volatile_type", 2),
               Ref("DW_TAG_const_type", 3),
               Ref("DW_TAG_pointer_type", 4),
               Ref("DW_TAG_pointer_type", 5),
               Ref("DW_TAG_const_type", 8),
               [Base("char") EXCEPT !.byte_size = 1, !.enc = "DW_ATE_signed_char"] >>]

\* struct R { int a; <member without a type> b; }
U_partial ==
  [cus |-> <<1>>,
   dies |-> << CU(<<2, 3>>),
               Base("int"),
               Struct("R", <<4, 5>>), Member("a", 2, 0), Member("b", 0, 4) >>]

BaseUniverses ==
  {U_types, U_enum(2), U_enum(3), U_enum_anon, U_self("S"), U_self(NULL),
   U_mutual("A", "B"), U_mutual(NULL, NULL), U_fwd, U_faulty, U_arrays,
   U_modifiers, U_decl, U_partial}

\* the same tree with dwarf_siblingof / dwarf_child failing on one DIE
WithSibFail(u, o) == [u EXCEPT !.dies[o].sibFail = TRUE]
WithChildFail(u, o) == [u EXCEPT !.dies[o].childFail = TRUE]

Universes ==
  BaseUniverses
  \cup UNION {{WithSibFail(u, o) : o \in DOMAIN u.dies} : u \in BaseUniverses}
  \cup UNION {{WithChildFail(u, o) : o \in DOMAIN u.dies} : u \in BaseUniverses}

----------------------------------------------------------------------------
(* The run: process_cus, do_dies_traversal, try_visit_die, do_second_pass *)

NoRet == [off |-> 0, how |-> "none", marks |-> 0]

\* the parts of the state no specification but its own touches
IdleCacheSpec == firstMark = <<>> /\ lastOp = <<>>
IdleCmpSpec == cmp = <<>>
IdleDupSpec == dup = <<>>
IdleFrameSpec == fv = <<>>
IdleHeapSpec == heap = <<>>
IdleRun ==
  /\ queue = <<>> /\ stack = <<>> /\ tpc = "idle" /\ cuIdx = 0 /\ cur = 0
  /\ spIdx = BADNODE /\ trace = <<>> /\ returned = {} /\ ret = NoRet
  /\ popped = {} /\ examined = <<>> /\ overflow = FALSE

Init ==
  /\ \E u \in Universes : dies = u.dies /\ cus = u.cus
  /\ cache = [o \in DOMAIN dies |-> NoEntry]      \* init_cache
  /\ types = <<>> /\ consts = {} /\ members = {}
  /\ queue = <<>> /\ stack = <<>> /\ tpc = "cu" /\ cuIdx = 0 /\ cur = 0
  /\ spIdx = BADNODE /\ trace = <<>> /\ returned = {} /\ ret = NoRet
  /\ popped = {} /\ examined = <<>> /\ overflow = FALSE
  /\ IdleCacheSpec /\ IdleCmpSpec
  /\ IdleDupSpec /\ IdleFrameSpec /\ IdleHeapSpec

Top == stack[Len(stack)]
Front(q) == SubSeq(q, 1, Len(q) - 1)

\* the handler's view of the state
SOf(f) == [cache |-> cache, types |-> types, consts |-> consts,
           members |-> members, marks |-> f.marks]

Running == tpc = "visit" /\ ~overflow /\ stack # <<>>

\* visit_die found the DIE uncached and its tag is one of tags
CanEnter(tags) ==
  Running /\ Top.pc = "call" /\ ~in_cache(cache, Top.off) /\ dies[Top.off].tag \in tags

\* the try_visit_die called by the top frame has returned
CanResume(pc, tags) == Running /\ Top.pc = pc /\ dies[Top.off].tag \in tags

\* try_visit_die returns to its caller (how = "throw": through its catch)
LeaveFrame(how, marks) ==
  /\ stack' = Front(stack)
  /\ returned' = returned \cup {Top.off}
  /\ ret' = [off |-> Top.off, how |-> how, marks |-> marks]
  /\ tpc' = IF Len(stack) = 1 THEN "expand" ELSE tpc
  /\ UNCHANGED overflow

\* the state after a handler ran up to its next call, return or throw
Apply(R, entering) ==
  /\ cache' = R.s.cache /\ types' = R.s.types
  /\ consts' = R.s.consts /\ members' = R.s.members
  /\ trace' = IF entering THEN Append(trace, Top.off) ELSE trace
  /\ IF R.out = "call"
     THEN /\ IF Len(stack) >= MaxDepth
             THEN overflow' = TRUE /\ stack' = [stack EXCEPT ![Len(stack)] = R.f]
             ELSE overflow' = overflow
                  /\ stack' = Append([stack EXCEPT ![Len(stack)] = R.f], Frame(R.f.ref))
          /\ UNCHANGED <<returned, ret, tpc>>
     ELSE LeaveFrame(IF R.out = "throw" THEN "throw" ELSE "normal", R.s.marks)
  /\ UNCHANGED <<dies, cus, queue, cuIdx, cur, spIdx, popped, examined,
                 firstMark, lastOp, cmp, dup, fv, heap>>

ModifierTags == {"DW_TAG_volatile_type", "DW_TAG_const_type", "DW_TAG_pointer_type"}

HandledTags == ModifierTags \cup
  {"DW_TAG_enumeration_type", "DW_TAG_base_type", "DW_TAG_unspecified_type",
   "DW_TAG_typedef", "DW_TAG_array_type", "DW_TAG_structure_type"}

\* visit_die: the DIE is in the cache, nothing is done
VisitCached ==
  /\ Running /\ Top.pc = "call" /\ in_cache(cache, Top.off)
  /\ LeaveFrame("cached", 0)
  /\ UNCHANGED <<dies, cus, cache, types, consts, members, queue, cuIdx, cur,
                 spIdx, trace, popped, examined, firstMark, lastOp, cmp, dup, fv, heap>>

\* visit_die: the default case of the switch
VisitOther ==
  /\ Running /\ Top.pc = "call" /\ ~in_cache(cache, Top.off)
  /\ dies[Top.off].tag \notin HandledTags
  /\ LeaveFrame("other", 0)
  /\ UNCHANGED <<dies, cus, cache, types, consts, members, queue, cuIdx, cur,
                 spIdx, trace, popped, examined, firstMark, lastOp, cmp, dup, fv, heap>>

ProcessEnum ==
  CanEnter({"DW_TAG_enumeration_type"}) /\ Apply(process_enum(SOf(Top), Top), TRUE)

ProcessBaseType ==
  CanEnter({"DW_TAG_base_type"}) /\ Apply(process_base_type(SOf(Top), Top), TRUE)

ProcessUnspecified ==
  CanEnter({"DW_TAG_unspecified_type"}) /\ Apply(process_unspecified(SOf(Top), Top), TRUE)

ProcessModifier ==
  CanEnter(ModifierTags) /\ Apply(process_modifier(SOf(Top), Top), TRUE)

ProcessTypedef ==
  CanEnter({"DW_TAG_typedef"}) /\ Apply(process_typedef(SOf(Top), Top), TRUE)

ProcessArray ==
  CanEnter({"DW_TAG_array_type"}) /\ Apply(process_array(SOf(Top), Top), TRUE)

ProcessStructure ==
  CanEnter({"DW_TAG_structure_type"}) /\ Apply(process_structure(SOf(Top), Top), TRUE)

ResumeModifier ==
  CanResume("ref", ModifierTags) /\ Apply(resume_modifier(SOf(Top), Top), FALSE)

ResumeTypedef ==
  CanResume("ref", {"DW_TAG_typedef"}) /\ Apply(resume_typedef(SOf(Top), Top), FALSE)

ResumeArray ==
  CanResume("ref", {"DW_TAG_array_type"}) /\ Apply(resume_array(SOf(Top), Top), FALSE)

ResumeMember ==
  CanResume("member", {"DW_TAG_structure_type"}) /\ Apply(resume_member(SOf(Top), Top), FALSE)

\* process_cus: the next compilation unit header; its root DIE seeds the
\* worklist of do_dies_traversal when it is a compile unit
NextCU ==
  /\ tpc = "cu" /\ cuIdx < Len(cus)
  /\ cuIdx' = cuIdx + 1
  /\ IF dies[cus[cuIdx + 1]].tag = "DW_TAG_compile_unit"
     THEN queue' = <<cus[cuIdx + 1]>> /\ tpc' = "pop"
     ELSE UNCHANGED <<queue, tpc>>
  /\ UNCHANGED <<dies, cus, cache, types, consts, members, stack, cur, spIdx,
                 trace, returned, ret, popped, examined, overflow,
                 firstMark, lastOp, cmp, dup, fv, heap>>

\* do_dies_traversal: holder(dbg, queue.back()); queue.pop_back();
\* try_visit_die(holder) is called
Pop ==
  /\ tpc = "pop" /\ queue # <<>>
  /\ cur' = queue[Len(queue)]
  /\ queue' = Front(queue)
  /\ popped' = popped \cup {queue[Len(queue)]}
  /\ stack' = <<Frame(queue[Len(queue)])>>
  /\ tpc' = "visit"
  /\ UNCHANGED <<dies, cus, cache, types, consts, members, cuIdx, spIdx, trace,
                 returned, ret, examined, overflow, firstMark, lastOp, cmp, dup, fv, heap>>

\* the expansion step with the child pushed before the sibling
Expand_child_first ==
  /\ tpc = "expand"
  /\ LET sib == IF dies[cur].sibFail THEN 0 ELSE sibling_of(cur)
         kid == IF dies[cur].childFail THEN 0 ELSE child_of(cur)
         q1 == IF kid # 0 THEN Append(queue, kid) ELSE queue
     IN queue' = IF sib # 0 THEN Append(q1, sib) ELSE q1
  /\ tpc' = "pop"
  /\ UNCHANGED <<dies, cus, cache, types, consts, members, stack, cuIdx, cur,
                 spIdx, trace, returned, ret, popped, examined, overflow,
                 firstMark, lastOp, cmp, dup, fv, heap>>

\* do_dies_traversal after try_visit_die(holder): the sibling, then the
\* child, are pushed unless their retrieval throws
Expand ==
  /\ tpc = "expand"
  /\ LET sib == IF dies[cur].sibFail THEN 0 ELSE sibling_of(cur)
         kid == IF dies[cur].childFail THEN 0 ELSE child_of(cur)
         q1 == IF sib # 0 THEN Append(queue, sib) ELSE queue
     IN queue' = IF kid # 0 THEN Append(q1, kid) ELSE q1
  /\ tpc' = "pop"
  /\ UNCHANGED <<dies, cus, cache, types, consts, members, stack, cuIdx, cur,
                 spIdx, trace, returned, ret, popped, examined, overflow,
                 firstMark, lastOp, cmp, dup, fv, heap>>

\* do_dies_traversal: the worklist is empty, back to process_cus
EndTraversal ==
  /\ tpc = "pop" /\ queue = <<>>
  /\ tpc' = "cu"
  /\ UNCHANGED <<dies, cus, cache, types, consts, members, queue, stack, cuIdx,
                 cur, spIdx, trace, returned, ret, popped, examined, overflow,
                 firstMark, lastOp, cmp, dup, fv, heap>>

\* netnode::sup1st / supnxt over the cache
sup1st(c) ==
  IF \E o \in DOMAIN c : in_cache(c, o)
  THEN CHOOSE o \in DOMAIN c : in_cache(c, o) /\ \A p \in DOMAIN c : in_cache(c, p) => o <= p
  ELSE BADNODE

supnxt(c, idx) ==
  IF \E o \in DOMAIN c : in_cache(c, o) /\ o > idx
  THEN CHOOSE o \in DOMAIN c :
         in_cache(c, o) /\ o > idx /\ \A p \in DOMAIN c : (in_cache(c, p) /\ p > idx) => o <= p
  ELSE BADNODE

\* run: process_cus is over, do_second_pass builds its CachedDieIterator
StartSecondPass ==
  /\ tpc = "cu" /\ cuIdx = Len(cus)
  /\ tpc' = "second"
  /\ spIdx' = sup1st(cache)
  /\ UNCHANGED <<dies, cus, cache, types, consts, members, queue, stack, cuIdx,
                 cur, trace, returned, ret, popped, examined, overflow,
                 firstMark, lastOp, cmp, dup, fv, heap>>

\* do_second_pass: one iteration; a pending structure only gets a message
SecondPassStep ==
  /\ tpc = "second" /\ spIdx # BADNODE
  /\ examined' = Append(examined, spIdx)
  /\ spIdx' = supnxt(cache, spIdx)
  /\ UNCHANGED <<dies, cus, cache, types, consts, members, queue, stack, tpc,
                 cuIdx, cur, trace, returned, ret, popped, overflow,
                 firstMark, lastOp, cmp, dup, fv, heap>>

\* do_second_pass: the iterator is at its end; destroy_cache is not
\* modelled, the final cache stays observable
SecondPassEnd ==
  /\ tpc = "second" /\ spIdx = BADNODE
  /\ tpc' = "done"
  /\ UNCHANGED <<dies, cus, cache, types, consts, members, queue, stack, cuIdx,
                 cur, spIdx, trace, returned, ret, popped, examined, overflow,
                 firstMark, lastOp, cmp, dup, fv, heap>>

Next ==
  \/ NextCU \/ Pop \/ Expand \/ EndTraversal
  \/ VisitCached \/ VisitOther
  \/ ProcessEnum \/ ProcessBaseType \/ ProcessUnspecified \/ ProcessModifier
  \/ ProcessTypedef \/ ProcessArray \/ ProcessStructure
  \/ ResumeModifier \/ ResumeTypedef \/ ResumeArray \/ ResumeMember
  \/ StartSecondPass \/ SecondPassStep \/ SecondPassEnd

Spec == Init /\ [][Next]_vars

\* the run is a sequential program: it takes its next step
FairSpec == Spec /\ WF_vars(Next)

----------------------------------------------------------------------------
(* SpecCache: the cache operations of DieHolder, called in any order *)

VarEntry == [type |-> DIE_VAR, ordinal |-> 0, second_pass |-> FALSE]

\* the cache starts empty, or holds DIE_VAR entries that cache_useless and
\* cache_type must leave alone
InitCache ==
  /\ dies = [o \in 1..NumCacheOffsets |-> Base("t")]
  /\ cus = <<>>
  /\ cache \in [1..NumCacheOffsets -> {NoEntry, VarEntry}]
  /\ types = <<>> /\ consts = {} /\ members = {}
  /\ IdleRun /\ IdleCmpSpec
  /\ IdleDupSpec /\ IdleFrameSpec /\ IdleHeapSpec
  /\ firstMark = [o \in 1..NumCacheOffsets |-> NoEntry]
  /\ lastOp = [op |-> "none", off |-> 0, ordinal |-> 0, second_pass |-> FALSE,
               before |-> cache]

UnchangedByCacheSpec ==
  UNCHANGED <<dies, cus, types, consts, members, queue, stack, tpc, cuIdx, cur,
              spIdx, trace, returned, ret, popped, examined, overflow, cmp,
              dup, fv, heap>>

CacheUseless(o) ==
  /\ cache' = cache_useless(cache, o)
  /\ lastOp' = [op |-> "useless", off |-> o, ordinal |-> 0, second_pass |-> FALSE,
                before |-> cache]
  /\ UNCHANGED firstMark
  /\ UnchangedByCacheSpec

\* firstMark keeps the arguments of the first cache_type call that found
\* the offset absent or useless
CacheType(o, ordinal, second_pass) ==
  /\ cache' = cache_type(cache, o, ordinal, second_pass)
  /\ lastOp' = [op |-> "type", off |-> o, ordinal |-> ordinal,
                second_pass |-> second_pass, before |-> cache]
  /\ firstMark' =
       IF firstMark[o].type = "none" /\ cache[o].type \in {"none", DIE_USELESS}
       THEN [firstMark EXCEPT ![o] = [type |-> DIE_TYPE, ordinal |-> ordinal,
                                      second_pass |-> second_pass]]
       ELSE firstMark
  /\ UnchangedByCacheSpec

NextCache ==
  \/ \E o \in 1..NumCacheOffsets : CacheUseless(o)
  \/ \E o \in 1..NumCacheOffsets, ordinal \in 0..MaxOrdinal, second_pass \in BOOLEAN :
       CacheType(o, ordinal, second_pass)

SpecCache == InitCache /\ [][NextCache]_vars

----------------------------------------------------------------------------
(* SpecEnum / SpecStruc: the comparators on bounded inputs *)

SeqsUpTo(X, n) == UNION {[1..k -> X] : k \in 0..n}

\* a parent DIE at offset 1 with the given children at offsets 2, 3, ...
Family(parent, kids) ==
  <<[parent EXCEPT !.kids = [i \in 1..Len(kids) |-> i + 1]]>> \o kids

UnchangedByCmpSpec ==
  UNCHANGED <<dies, cus, cache, types, consts, members, queue, stack, tpc,
              cuIdx, cur, spIdx, trace, returned, ret, popped, examined,
              overflow, firstMark, lastOp, dup, fv, heap>>

\* an enumeration DIE "E" with up to MaxKids enumerators; the database has
\* no enum "E", or an enum "E" (id 1) with some constants
InitEnum ==
  /\ \E kids \in SeqsUpTo({Enumerator(n, v) : n \in {"A", "B"}, v \in {1, 2, NoAttr}}, MaxKids) :
       dies = Family(Enum("E", <<>>), kids)
  /\ cus = <<>>
  /\ cache = [o \in DOMAIN dies |-> NoEntry]
  /\ \E exists \in BOOLEAN, vals \in [{"A", "B"} -> {0, 1, 2}] :
       /\ types = IF exists THEN <<[name |-> "E", ty |-> Byte({"BTF_ENUM"})]>> ELSE <<>>
       /\ consts = IF exists
                   THEN {[e |-> 1, n |-> n, v |-> vals[n]] : n \in {m \in {"A", "B"} : vals[m] # 0}}
                   ELSE {}
       /\ (~exists => vals = [n \in {"A", "B"} |-> 0])
  /\ members = {}
  /\ IdleRun /\ IdleCacheSpec
  /\ IdleDupSpec /\ IdleFrameSpec /\ IdleHeapSpec
  /\ cmp = [pc |-> "init", ret |-> FALSE, exc |-> FALSE]

\* EnumCmp enum_cmp(name); enum_cmp.equal(enumeration_holder)
EnumEqual ==
  /\ cmp.pc = "init"
  /\ LET r == EnumCmp_equal(EnumCmp_by_name(types, consts, dies[1].name), 1)
     IN cmp' = [pc |-> "done", ret |-> r.ret, exc |-> r.exc]
  /\ UnchangedByCmpSpec

NextEnum == EnumEqual

SpecEnum == InitEnum /\ [][NextEnum]_vars

\* a structure or union DIE "S" with up to MaxKids members; the database
\* has no "S", or a structure or union "S" (id 1) with some members
HostMembers(isUnion) ==
  IF isUnion
  THEN {{[s |-> 1, n |-> n, o |-> 0, t |-> 0] : n \in ns} : ns \in SUBSET {"a", "b"}}
  ELSE {ms \in SUBSET {[s |-> 1, n |-> n, o |-> o, t |-> 0] : n \in {"a", "b"}, o \in {0, 4}} :
          \A x, y \in ms : x # y => (x.n # y.n /\ x.o # y.o)}

InitStruc ==
  /\ \E tag \in {"DW_TAG_structure_type", "DW_TAG_union_type"},
        kids \in SeqsUpTo({Member(n, 0, o) : n \in {"a", "b"}, o \in {0, 4, NoAttr}}, MaxKids) :
       dies = Family(D(tag, "S", 0, <<>>), kids)
  /\ cus = <<>>
  /\ cache = [o \in DOMAIN dies |-> NoEntry]
  /\ \E kind \in {"none", "BTF_STRUCT", "BTF_UNION"} :
       /\ types = IF kind = "none" THEN <<>> ELSE <<[name |-> "S", ty |-> Byte({kind})]>>
       /\ members \in IF kind = "none" THEN {{}} ELSE HostMembers(kind = "BTF_UNION")
  /\ consts = {}
  /\ IdleRun /\ IdleCacheSpec
  /\ IdleDupSpec /\ IdleFrameSpec /\ IdleHeapSpec
  /\ cmp = [pc |-> "init", ret |-> FALSE, exc |-> FALSE]

\* StrucCmp struc_cmp(name); struc_cmp.equal(structure_holder)
StrucEqual ==
  /\ cmp.pc = "init"
  /\ LET r == StrucCmp_equal(StrucCmp_by_name(types, members, dies[1].name), 1)
     IN cmp' = [pc |-> "done", ret |-> r.ret, exc |-> r.exc]
  /\ UnchangedByCmpSpec

NextStruc == StrucEqual

SpecStruc == InitStruc /\ [][NextStruc]_vars

----------------------------------------------------------------------------
(* SpecDup: add_dup_enum, add_dup_struc and set_simple_die_type called on *)
(* a database that already holds entries of the wanted name               *)

RECURSIVE Underscores(_)
Underscores(k) == IF k = 0 THEN "" ELSE Underscores(k - 1) \o "_"

ChainName(k) == "T" \o Underscores(k)

HostKinds == {"BTF_ENUM", "BTF_STRUCT", "BT_INT32", "BT_INT8"}

\* the database with an entry ChainName(j), of kind present[j], for every
\* j <= k that is not "absent"
RECURSIVE BuildDb(_, _)
BuildDb(present, k) ==
  IF k < 0 THEN <<>>
  ELSE LET rest == BuildDb(present, k - 1)
       IN IF present[k] = "absent" THEN rest
          ELSE Append(rest, [name |-> ChainName(k), ty |-> Byte({present[k]})])

NoCall == [op |-> "none", name |-> NULL, bytes |-> <<>>, id |-> 0]

\* what the finished call answered
Completed(d) ==
  IF d.pc = "done"
  THEN [op |-> d.op, name |-> d.name, bytes |-> d.bytes, id |-> d.id]
  ELSE NoCall

InitDup ==
  /\ dies \in {Family(Enum("T", <<>>), <<Enumerator("A", 1)>>),
               Family(Enum("T", <<>>), <<Enumerator("A", NoAttr)>>),
               Family(Struct("T", <<>>), <<Member("a", 0, 0)>>)}
  /\ cus = <<>>
  /\ cache = [o \in DOMAIN dies |-> NoEntry]
  /\ \E present \in [0..(MaxChain - 1) -> HostKinds \cup {"absent"}],
        h \in 0..MaxChain, v \in {1, 2}, mo \in {NoAttr, 0, 4} :
       /\ types = BuildDb(present, MaxChain - 1)
       /\ consts = IF h \in DOMAIN types /\ is_type_enum(types[h].ty)
                      /\ dies[1].tag = "DW_TAG_enumeration_type"
                   THEN {[e |-> h, n |-> "A", v |-> v]} ELSE {}
       /\ members = IF mo = NoAttr \/ dies[1].tag # "DW_TAG_structure_type" THEN {}
                    ELSE {[s |-> i, n |-> "a", o |-> mo, t |-> 0] :
                            i \in {j \in DOMAIN types : is_type_struct(types[j].ty)}}
  /\ IdleRun /\ IdleCacheSpec /\ IdleCmpSpec /\ IdleFrameSpec /\ IdleHeapSpec
  /\ dup = [pc |-> "idle", op |-> "none", name |-> NULL, bytes |-> <<>>,
            new_name |-> NULL, id |-> 0, iters |-> 0, n0 |-> 0, alloced |-> 0,
            before |-> <<>>, calls |-> 0, prev |-> NoCall]

UnchangedByDupSpec ==
  UNCHANGED <<dies, cus, cache, consts, members, queue, stack, tpc, cuIdx, cur,
              spIdx, trace, returned, ret, popped, examined, overflow,
              firstMark, lastOp, cmp, fv, heap>>

CanCallDup == dup.pc \in {"idle", "done", "throw"} /\ dup.calls < MaxCalls

\* the state of a call that has made its first attempt
DupCalled(op, name, bytes, id, alloced) ==
  [pc |-> IF id # BADNODE /\ id # 0 THEN "done" ELSE "loop",
   op |-> op, name |-> name, bytes |-> bytes, new_name |-> name, id |-> id,
   iters |-> 0, n0 |-> Len(types), alloced |-> alloced, before |-> types,
   calls |-> dup.calls + 1, prev |-> Completed(dup)]

\* add_dup_enum up to its loop: enum_id = add_enum(BADADDR, name, flag)
AddDupEnum ==
  /\ CanCallDup /\ dies[1].tag = "DW_TAG_enumeration_type"
  /\ LET added == add_enum(types, dies[1].name)
     IN /\ types' = added.types
        /\ dup' = DupCalled("enum", dies[1].name, <<>>, added.id, 0)
  /\ UnchangedByDupSpec

\* add_dup_struc up to its loop: struc_id = add_struc(BADADDR, name, is_union)
AddDupStruc ==
  /\ CanCallDup /\ dies[1].tag = "DW_TAG_structure_type"
  /\ LET added == add_struc_kind(types, dies[1].name, FALSE)
     IN /\ types' = added.types
        /\ dup' = DupCalled("struc", dies[1].name, <<>>, added.id, 0)
  /\ UnchangedByDupSpec

\* set_simple_die_type up to its loop: get_simple_type, alloc_type_ordinal
SetSimpleDieType(name, ida_type) ==
  /\ CanCallDup
  /\ LET existing == get_simple_type(types, name, ida_type)
     IN /\ types' = IF existing # 0 THEN types ELSE Append(types, Unset)
        /\ dup' = DupCalled("simple", name, ida_type, existing, Len(types) + 1)
  /\ UnchangedByDupSpec

\* the state of a call after one more pass of its loop
DupRetried(r_types, new_name, id, exc) ==
  /\ types' = r_types
  /\ dup' = [dup EXCEPT !.new_name = new_name, !.id = id, !.iters = @ + 1,
                        !.pc = IF exc THEN "throw"
                               ELSE IF id # BADNODE /\ id # 0 THEN "done" ELSE "loop"]
  /\ UnchangedByDupSpec

\* a loop still running after MaxChain + 2 passes is not followed further
CanRetry(op) == dup.pc = "loop" /\ dup.op = op /\ dup.iters < MaxChain + 2

AddDupEnumRetry ==
  /\ CanRetry("enum")
  /\ LET r == add_dup_enum_iter(types, consts, 1, dup.new_name)
     IN DupRetried(r.types, r.new_name, r.id, r.exc)

AddDupStrucRetry ==
  /\ CanRetry("struc")
  /\ LET r == add_dup_struc_iter(types, members, 1, dup.new_name)
     IN DupRetried(r.types, r.new_name, r.id, r.exc)

SetSimpleRetry ==
  /\ CanRetry("simple")
  /\ LET r == set_simple_iter(types, dup.alloced, dup.new_name, dup.bytes)
     IN DupRetried(r.types, r.new_name, IF r.saved THEN r.ordinal ELSE 0, FALSE)

NextDup ==
  \/ AddDupEnum \/ AddDupStruc
  \/ \E name \in {"T", NULL}, kind \in {"BT_INT32", "BT_INT8"} :
       SetSimpleDieType(name, Byte({kind}))
  \/ AddDupEnumRetry \/ AddDupStrucRetry \/ SetSimpleRetry

SpecDup == InitDup /\ [][NextDup]_vars

----------------------------------------------------------------------------
(* frame_retrieval.cpp: visit_frame_var *)

\* sval_t holds SvalBits bits, Dwarf_Unsigned (lr_number) one bit more
DwarfBits == SvalBits + 1
MinSval == 0 - 2 ^ (SvalBits - 1)
MaxSval == 2 ^ (SvalBits - 1) - 1

\* conversion of an unsigned value to sval_t
to_sval(v) ==
  LET m == v % (2 ^ SvalBits)
  IN IF m > MaxSval THEN m - 2 ^ SvalBits ELSE m

\* offset_area.offset + loc->lr_number with the base left out
sval_add_no_base(offset, lr_number) == to_sval(lr_number)

\* sval_t offset = offset_area.offset + loc->lr_number: the sval_t is
\* converted to Dwarf_Unsigned, the sum is converted back to sval_t
sval_add(offset, lr_number) ==
  to_sval(((offset % (2 ^ DwarfBits)) + lr_number) % (2 ^ DwarfBits))

\* the register switch with a default that names a register
reg_name_default_eax(atom) ==
  CASE atom = "DW_OP_reg1" -> "ecx"
    [] atom = "DW_OP_reg2" -> "edx"
    [] atom = "DW_OP_reg3" -> "ebx"
    [] atom = "DW_OP_reg4" -> "esp"
    [] atom = "DW_OP_reg5" -> "ebp"
    [] atom = "DW_OP_reg6" -> "esi"
    [] atom = "DW_OP_reg7" -> "edi"
    [] atom = "DW_OP_reg8" -> "eip"
    [] OTHER -> "eax"

\* the register switch with the cases of reg4 and reg5 exchanged
reg_name_esp_ebp_swapped(atom) ==
  CASE atom = "DW_OP_reg0" -> "eax"
    [] atom = "DW_OP_reg1" -> "ecx"
    [] atom = "DW_OP_reg2" -> "edx"
    [] atom = "DW_OP_reg3" -> "ebx"
    [] atom = "DW_OP_reg4" -> "ebp"
    [] atom = "DW_OP_reg5" -> "esp"
    [] atom = "DW_OP_reg6" -> "esi"
    [] atom = "DW_OP_reg7" -> "edi"
    [] atom = "DW_OP_reg8" -> "eip"
    [] OTHER -> NULL

\* switch(loc->lr_atom): the register a DW_OP_regN atom names
reg_name(atom) ==
  CASE atom = "DW_OP_reg0" -> "eax"
    [] atom = "DW_OP_reg1" -> "ecx"
    [] atom = "DW_OP_reg2" -> "edx"
    [] atom = "DW_OP_reg3" -> "ebx"
    [] atom = "DW_OP_reg4" -> "esp"
    [] atom = "DW_OP_reg5" -> "ebp"
    [] atom = "DW_OP_reg6" -> "esi"
    [] atom = "DW_OP_reg7" -> "edi"
    [] atom = "DW_OP_reg8" -> "eip"
    [] OTHER -> NULL

\* area_t(ea1, ea2) / OffsetArea(ea1, ea2, offset, use_fp)
Area(ea1, ea2) == [startEA |-> ea1, endEA |-> ea2]
OffsetArea(ea1, ea2, offset) == [startEA |-> ea1, endEA |-> ea2, offset |-> offset]

\* a range test that forgets the start address
contains_end_only(offset_area, area) == area.endEA <= offset_area.endEA

\* offset_area.contains(area)
contains(offset_area, area) ==
  area.startEA >= offset_area.startEA /\ area.endEA <= offset_area.endEA

\* for(idx = 0; idx < offset_areas.size(); ++idx): the first area that
\* contains the range of the variable's location
RECURSIVE frame_base_loop(_, _, _, _)
frame_base_loop(offset_areas, area, lr_number, idx) ==
  IF idx > Len(offset_areas) THEN [found |-> FALSE, offset |-> 0]
  ELSE IF contains(offset_areas[idx], area)
       THEN [found |-> TRUE,
             offset |-> sval_add(offset_areas[idx].offset, lr_number)]
       ELSE frame_base_loop(offset_areas, area, lr_number, idx + 1)

\* the stack offset of a variable that is not in a register
stack_offset(locdesc, offset_areas) ==
  IF locdesc.lr_atom = "DW_OP_breg5"
  THEN [found |-> TRUE, offset |-> to_sval(locdesc.lr_number)]
  ELSE IF locdesc.lr_atom = "DW_OP_fbreg" /\ Len(offset_areas) # 0
       THEN IF ~locdesc.ld_from_loclist
            THEN [found |-> TRUE,
                  offset |-> sval_add(offset_areas[1].offset, locdesc.lr_number)]
            ELSE frame_base_loop(offset_areas,
                                 Area(locdesc.ld_lopc, locdesc.ld_hipc),
                                 locdesc.lr_number, 1)
       ELSE [found |-> FALSE, offset |-> 0]

\* get_member_by_name(fptr, name) != NULL
get_member_by_name(frame, name) == \E m \in frame : m.n = name

\* host: add_stkvar2 defines a frame member unless its name or its offset
\* is taken
add_stkvar2(frame, name, offset) ==
  IF \E m \in frame : m.n = name \/ m.o = offset THEN frame
  ELSE frame \cup {[n |-> name, o |-> offset, typed |-> FALSE]}

\* host: set_member_tinfo
set_member_tinfo(frame, name) ==
  {IF m.n = name THEN [m EXCEPT !.typed = TRUE] ELSE m : m \in frame}

StkVar(name, offset, flags, size) ==
  [fn |-> "add_stkvar2", name |-> name, offset |-> offset, flags |-> flags,
   size |-> size]

\* the size the host reports for a sized type
TypeSize == 4

\* lines 121-174: a stack location was found, attach the variable
attach_stkvar(frame, var, offset) ==
  LET named == add_stkvar2(frame, var.name, offset)
      name_only == [out |-> "return", frame |-> named,
                    calls |-> <<StkVar(var.name, offset, "0", 0)>>]
  IN CASE var.type = "badform" ->
            [out |-> "throw", frame |-> frame, calls |-> <<>>]
       [] var.type = "flags" ->
            [out |-> "return", frame |-> named,
             calls |-> <<StkVar(var.name, offset, "struflag", TypeSize)>>]
       [] var.type = "plain" ->
            IF get_member_by_name(named, var.name)
            THEN [out |-> "return", frame |-> set_member_tinfo(named, var.name),
                  calls |-> <<StkVar(var.name, offset, "0", TypeSize),
                              [fn |-> "set_member_tinfo", name |-> var.name]>>]
            ELSE [out |-> "return", frame |-> named,
                  calls |-> <<StkVar(var.name, offset, "0", TypeSize)>>]
       [] OTHER -> name_only

\* visit_frame_var(var_holder, locdesc, funptr, cu_low_pc, offset_areas);
\* frame is the member set of get_frame(funptr), has_frame tells whether
\* get_frame returns a frame at all
visit_frame_var(has_frame, frame, var, locdesc, cu_low_pc, offset_areas) ==
  LET nothing == [out |-> "return", frame |-> frame, calls |-> <<>>]
  IN IF var.name # NULL /\ locdesc.ld_cents = 1
     THEN IF reg_name(locdesc.lr_atom) # NULL
          THEN IF locdesc.ld_from_loclist
               THEN [nothing EXCEPT !.calls =
                       <<[fn |-> "add_regvar",
                          lo |-> locdesc.ld_lopc + cu_low_pc,
                          hi |-> locdesc.ld_hipc + cu_low_pc,
                          reg |-> reg_name(locdesc.lr_atom),
                          name |-> var.name]>>]
               ELSE nothing
          ELSE IF has_frame /\ ~get_member_by_name(frame, var.name)
               THEN LET so == stack_offset(locdesc, offset_areas)
                    IN IF so.found THEN attach_stkvar(frame, var, so.offset)
                       ELSE nothing
               ELSE nothing
     ELSE nothing

----------------------------------------------------------------------------
(* SpecFrame: one variable of a subprogram handed to visit_frame_var *)

RegAtoms == {"DW_OP_reg0", "DW_OP_reg1", "DW_OP_reg2", "DW_OP_reg3",
             "DW_OP_reg4", "DW_OP_reg5", "DW_OP_reg6", "DW_OP_reg7",
             "DW_OP_reg8"}
StackAtoms == {"DW_OP_breg5", "DW_OP_fbreg"}
OtherAtoms == {"DW_OP_reg9", "DW_OP_breg4", "DW_OP_addr"}

\* frame-base areas and address ranges of variable locations
OffsetAreas == {OffsetArea(16, 32, MinSval), OffsetArea(24, 32, MaxSval),
                OffsetArea(16, 32, 0 - 8)}
VarRanges == {Area(16, 24), Area(24, 32)}

\* OffsetAreas::m_base as left by the constructor (0) or by set_stack_base,
\* beside the areas; fb_from_loclist tells whether the subprogram's
\* DW_AT_frame_base was a location list
StackBases == {0, MaxSval}

\* what the variable's DW_AT_type leads to
TypeKinds == {"none", "badform", "uncached", "null", "badsize", "flags", "plain"}

\* location descriptions: the operand is enumerated for the atoms that
\* use it, the first entry of a description of 0 or 2 entries is arbitrary
LocDescs ==
  {[ld_cents |-> c, ld_from_loclist |-> l, ld_lopc |-> r.startEA,
    ld_hipc |-> r.endEA, lr_atom |-> a, lr_number |-> n] :
     c \in {1}, l \in BOOLEAN, r \in VarRanges, a \in StackAtoms,
     n \in 0..(2 ^ DwarfBits - 1)}
  \cup
  {[ld_cents |-> c, ld_from_loclist |-> l, ld_lopc |-> r.startEA,
    ld_hipc |-> r.endEA, lr_atom |-> a, lr_number |-> n] :
     c \in {1}, l \in BOOLEAN, r \in VarRanges,
     a \in RegAtoms \cup OtherAtoms, n \in {4}}
  \cup
  {[ld_cents |-> c, ld_from_loclist |-> l, ld_lopc |-> r.startEA,
    ld_hipc |-> r.endEA, lr_atom |-> a, lr_number |-> n] :
     c \in {0, 2}, l \in BOOLEAN, r \in VarRanges,
     a \in {"DW_OP_reg0", "DW_OP_breg5", "DW_OP_fbreg"}, n \in {4}}

NoVar == [name |-> NULL, type |-> "none"]
NoLoc == [ld_cents |-> 0, ld_from_loclist |-> FALSE, ld_lopc |-> 0,
          ld_hipc |-> 0, lr_atom |-> "DW_OP_addr", lr_number |-> 0]

InitFrame ==
  /\ dies = <<>> /\ cus = <<>> /\ cache = <<>>
  /\ types = <<>> /\ consts = {} /\ members = {}
  /\ IdleRun /\ IdleCacheSpec /\ IdleCmpSpec /\ IdleDupSpec /\ IdleHeapSpec
  /\ \E offset_areas \in SeqsUpTo(OffsetAreas, MaxAreas),
        m_base \in StackBases,
        fb_from_loclist \in BOOLEAN,
        has_frame \in BOOLEAN,
        frame \in {{}, {[n |-> "v", o |-> 4, typed |-> FALSE]}},
        cu_low_pc \in {0, 4096} :
       /\ has_frame \/ frame = {}
       \* the stack base and the origin of the frame base are varied for
       \* one load address only
       /\ (m_base # 0 \/ fb_from_loclist) => cu_low_pc = 0
       /\ fv = [pc |-> "idle", offset_areas |-> offset_areas,
                m_base |-> m_base, fb_from_loclist |-> fb_from_loclist,
                has_frame |-> has_frame, frame |-> frame, frame0 |-> frame,
                cu_low_pc |-> cu_low_pc, var |-> NoVar, locdesc |-> NoLoc,
                calls |-> <<>>]

UnchangedByFrameSpec ==
  UNCHANGED <<dies, cus, cache, types, consts, members, queue, stack, tpc,
              cuIdx, cur, spIdx, trace, returned, ret, popped, examined,
              overflow, firstMark, lastOp, cmp, dup, heap>>

\* retrieve_var hands one location description of a variable to the visitor
VisitFrameVar ==
  /\ fv.pc = "idle"
  /\ \E name \in {NULL, "v"}, type \in TypeKinds, locdesc \in LocDescs :
       LET var == [name |-> name, type |-> type]
           r == visit_frame_var(fv.has_frame, fv.frame, var, locdesc,
                                fv.cu_low_pc, fv.offset_areas)
       IN fv' = [fv EXCEPT !.pc = IF r.out = "throw" THEN "throw" ELSE "done",
                           !.frame = r.frame, !.var = var,
                           !.locdesc = locdesc, !.calls = r.calls]
  /\ UnchangedByFrameSpec

NextFrame == VisitFrameVar

SpecFrame == InitFrame /\ [][NextFrame]_vars

----------------------------------------------------------------------------
(* idadwarf.cpp: DieHolder and DwarfDealloc, the decoder's allocations *)

\* the attributes a holder is asked for, in the order of their keys in
\* map<int, Dwarf_Attribute> (DW_AT_data_member_location < DW_AT_type)
AttrOrder == <<"DW_AT_data_member_location", "DW_AT_type">>
AttrNames == {AttrOrder[i] : i \in DOMAIN AttrOrder}

\* the decoder hands out an allocation / dwarf_dealloc(dbg, ptr, kind)
Acquire(h, kind) ==
  [h EXCEPT !.log = Append(@, [ev |-> "acquire", id |-> h.n, kind |-> kind]),
            !.n = @ + 1]
Dealloc(h, id, kind) ==
  [h EXCEPT !.log = Append(@, [ev |-> "dealloc", id |-> id, kind |-> kind])]

\* DieHolder::get_name
get_name(h) ==
  IF h.m_name = 0
  THEN CASE h.die.name = "error" -> [h |-> h, out |-> "throw"]
         [] h.die.name = "none" -> [h |-> h, out |-> "return"]
         [] OTHER -> [h |-> [Acquire(h, "DW_DLA_STRING") EXCEPT !.m_name = h.n],
                      out |-> "return"]
  ELSE [h |-> h, out |-> "return"]

\* DieHolder::get_attr: attrib is 0 for a NULL attribute
get_attr(h, attr) ==
  IF attr \notin DOMAIN h.m_attrs
  THEN CASE h.die.attrs[attr] = "error" ->
              [h |-> h, out |-> "throw", attrib |-> 0]
         [] h.die.attrs[attr] = "none" ->
              [h |-> [h EXCEPT !.m_attrs = (attr :> 0) @@ @],
               out |-> "return", attrib |-> 0]
         [] OTHER ->
              [h |-> [Acquire(h, "DW_DLA_ATTR") EXCEPT
                        !.m_attrs = (attr :> h.n) @@ @],
               out |-> "return", attrib |-> h.n]
  ELSE [h |-> h, out |-> "return", attrib |-> h.m_attrs[attr]]

\* DwarfDealloc::add for the count location descriptions of llbuf
RECURSIVE add_locdescs(_, _, _)
add_locdescs(hd, count, idx) ==
  IF idx >= count THEN hd
  ELSE LET h1 == Acquire(hd.h, "DW_DLA_LOCDESC")
           h2 == Acquire(h1, "DW_DLA_LOC_BLOCK")
       IN add_locdescs([h |-> h2,
                        m_deallocs |-> hd.m_deallocs \o
                          <<[first |-> hd.h.n, second |-> "DW_DLA_LOCDESC"],
                            [first |-> h1.n, second |-> "DW_DLA_LOC_BLOCK"]>>],
                       count, idx + 1)

\* DwarfDealloc::~DwarfDealloc: for(idx = size; idx > 0; --idx)
RECURSIVE DwarfDealloc_dtor(_, _, _)
DwarfDealloc_dtor(h, m_deallocs, idx) ==
  IF idx = 0 THEN h
  ELSE DwarfDealloc_dtor(Dealloc(h, m_deallocs[idx].first, m_deallocs[idx].second),
                         m_deallocs, idx - 1)

\* DieHolder::get_member_offset
get_member_offset(h) ==
  LET a == get_attr(h, "DW_AT_data_member_location")
  IN IF a.out = "throw" \/ a.attrib = 0 THEN [h |-> a.h, out |-> "throw"]
     ELSE IF a.h.die.loclist.status = "error" THEN [h |-> a.h, out |-> "throw"]
     ELSE LET h1 == Acquire(a.h, "DW_DLA_LIST")
              hd == add_locdescs([h |-> h1,
                                  m_deallocs |-> <<[first |-> a.h.n,
                                                    second |-> "DW_DLA_LIST"]>>],
                                 a.h.die.loclist.count, 0)
              freed == DwarfDealloc_dtor(hd.h, hd.m_deallocs, Len(hd.m_deallocs))
          IN [h |-> freed,
              out |-> IF a.h.die.loclist.count = 1 /\ a.h.die.loclist.valid
                      THEN "return" ELSE "throw"]

\* DieHolder::~DieHolder: the attribute handles, in the order of the map
RECURSIVE dtor_attrs(_, _)
dtor_attrs(h, i) ==
  IF i > Len(AttrOrder) THEN h
  ELSE IF AttrOrder[i] \in DOMAIN h.m_attrs /\ h.m_attrs[AttrOrder[i]] # 0
       THEN dtor_attrs(Dealloc(h, h.m_attrs[AttrOrder[i]], "DW_DLA_ATTR"), i + 1)
       ELSE dtor_attrs(h, i + 1)

\* DieHolder::~DieHolder
DieHolder_dtor(h) ==
  LET h1 == IF h.m_name # 0
            THEN [Dealloc(h, h.m_name, "DW_DLA_STRING") EXCEPT !.m_name = 0]
            ELSE h
      h2 == dtor_attrs(h1, 1)
  IN [Dealloc(h2, h2.m_die, "DW_DLA_DIE") EXCEPT
        !.m_die = 0, !.m_attrs = [k \in DOMAIN @ |-> 0]]

----------------------------------------------------------------------------
(* SpecHeap: the life of one DieHolder *)

LocLists ==
  {[status |-> "error", count |-> 0, valid |-> FALSE]} \cup
  {[status |-> "ok", count |-> c, valid |-> v] :
     c \in 0..MaxLocs, v \in BOOLEAN}

\* what the decoder answers for the DIE
DieInputs ==
  [found : BOOLEAN, name : {"ok", "none", "error"},
   attrs : [AttrNames -> {"ok", "none", "error"}], loclist : LocLists]

InitHeap ==
  /\ dies = <<>> /\ cus = <<>> /\ cache = <<>>
  /\ types = <<>> /\ consts = {} /\ members = {}
  /\ IdleRun /\ IdleCacheSpec /\ IdleCmpSpec /\ IdleDupSpec /\ IdleFrameSpec
  /\ \E die \in DieInputs :
       heap = [pc |-> "none", die |-> die, m_die |-> 0, m_name |-> 0,
               m_attrs |-> <<>>, log |-> <<>>, n |-> 1, ops |-> 0,
               out |-> "none"]

UnchangedByHeapSpec ==
  UNCHANGED <<dies, cus, cache, types, consts, members, queue, stack, tpc,
              cuIdx, cur, spIdx, trace, returned, ret, popped, examined,
              overflow, firstMark, lastOp, cmp, dup, fv>>

\* DieHolder(dbg, offset): dwarf_offdie, then init
Construct ==
  /\ heap.pc = "none"
  /\ heap' = IF heap.die.found
             THEN [Acquire(heap, "DW_DLA_DIE") EXCEPT !.pc = "live", !.m_die = heap.n]
             ELSE [heap EXCEPT !.pc = "failed", !.out = "throw"]
  /\ UnchangedByHeapSpec

CanUse == heap.pc = "live" /\ heap.ops < MaxOps

Used(r) == heap' = [r.h EXCEPT !.ops = @ + 1, !.out = r.out]

GetName == CanUse /\ Used(get_name(heap)) /\ UnchangedByHeapSpec

GetAttr(attr) ==
  /\ CanUse
  /\ LET r == get_attr(heap, attr) IN Used([h |-> r.h, out |-> r.out])
  /\ UnchangedByHeapSpec

GetMemberOffset == CanUse /\ Used(get_member_offset(heap)) /\ UnchangedByHeapSpec

\* the holder goes out of scope, after a return or while a DieException
\* unwinds
Destroy ==
  /\ heap.pc = "live"
  /\ heap' = [DieHolder_dtor(heap) EXCEPT !.pc = "destroyed"]
  /\ UnchangedByHeapSpec

NextHeap ==
  \/ Construct \/ GetName \/ GetMemberOffset \/ Destroy
  \/ \E attr \in AttrNames : GetAttr(attr)

SpecHeap == InitHeap /\ [][NextHeap]_vars

----------------------------------------------------------------------------
(* frame_retrieval.cpp: process_label; fv holds the state of the call *)

\* DieHolder::Ptr origin_holder: get() != NULL
holder_get(origin_holder) == origin_holder = "held"

\* a call through origin_holder: the member of the origin DIE when a holder
\* is held; through an empty pointer the behaviour is undefined, ub is what
\* the build happens to produce
origin_deref(l, member, ub) ==
  IF holder_get(l.origin_holder) THEN [val |-> l.origin[member], bad |-> FALSE]
  ELSE [val |-> ub, bad |-> TRUE]

\* the condition "one required attribute is missing"
one_missing(name, attrib) ==
  (name = NULL /\ attrib # NoAttr) \/ (name # NULL /\ attrib = NoAttr)

\* qstring name(get_name()); attrib = get_attr(DW_AT_low_pc); then, when
\* one of them is missing, the DW_AT_abstract_origin lookup
label_lookup(l) ==
  LET name == l.label.name
      attrib == l.label.low_pc
      l1 == [l EXCEPT !.name = name, !.attrib = attrib, !.pc = "origin"]
  IN IF one_missing(name, attrib)
     THEN CASE l.label.origin = "none" -> l1
            [] l.label.origin \in {"badform", "nodie"} ->
                 [l1 EXCEPT !.pc = "throw"]
            [] OTHER -> [l1 EXCEPT !.origin_holder = "held",
                                   !.lookups = @ + 1]
     ELSE l1

\* the origin block of process_label that keeps the holder after the name
\* was taken from it
label_origin_keep_holder(l, ub) ==
  IF one_missing(l.label.name, l.label.low_pc) /\ holder_get(l.origin_holder)
  THEN LET l1 == IF l.name = NULL
                 THEN [l EXCEPT !.name = l.origin.name, !.name_from = "origin"]
                 ELSE l
           d == origin_deref(l1, "low_pc", ub)
       IN IF l1.attrib = NoAttr
          THEN [l1 EXCEPT !.attrib = d.val, !.attrib_from = "origin",
                          !.bad_deref = @ \/ d.bad, !.pc = "apply"]
          ELSE [l1 EXCEPT !.pc = "apply"]
  ELSE [l EXCEPT !.pc = "apply"]

\* if(origin_holder.get() != NULL) { ... } inside the one-missing block
label_origin(l, ub) ==
  IF one_missing(l.label.name, l.label.low_pc) /\ holder_get(l.origin_holder)
  THEN LET l1 == IF l.name = NULL
                 THEN [l EXCEPT !.name = l.origin.name, !.name_from = "origin",
                                !.origin_holder = "released"]
                 ELSE l
           d == origin_deref(l1, "low_pc", ub)
       IN IF l1.attrib = NoAttr
          THEN [l1 EXCEPT !.attrib = d.val, !.attrib_from = "origin",
                          !.bad_deref = @ \/ d.bad, !.pc = "apply"]
          ELSE [l1 EXCEPT !.pc = "apply"]
  ELSE [l EXCEPT !.pc = "apply"]

\* get_addr_from_attr(DW_AT_low_pc): throws when the DIE has no such
\* attribute
get_addr_from_attr(low_pc) ==
  IF low_pc = NoAttr THEN [exc |-> TRUE, addr |-> 0]
  ELSE [exc |-> FALSE, addr |-> low_pc]

\* if(!name.empty() && attrib != NULL) set_name(low_pc, name, ...)
label_apply(l) ==
  IF l.name # NULL /\ l.attrib # NoAttr
  THEN LET a == IF holder_get(l.origin_holder)
                THEN get_addr_from_attr(l.origin.low_pc)
                ELSE get_addr_from_attr(l.label.low_pc)
       IN IF a.exc THEN [l EXCEPT !.pc = "throw"]
          ELSE [l EXCEPT !.pc = "done",
                         !.calls = Append(@, [fn |-> "set_name", ea |-> a.addr,
                                              name |-> l.name])]
  ELSE [l EXCEPT !.pc = "done"]

\* label and origin DIEs: name, DW_AT_low_pc, and for the label what its
\* DW_AT_abstract_origin leads to
LabelDies ==
  [name : {NULL, "L"}, low_pc : {NoAttr, 16},
   origin : {"none", "badform", "nodie", "ok"}]
OriginDies == [name : {NULL, "O"}, low_pc : {NoAttr, 32}]

\* what a call through an empty holder may yield
UbValues == {NoAttr, 48}

InitLabel ==
  /\ dies = <<>> /\ cus = <<>> /\ cache = <<>>
  /\ types = <<>> /\ consts = {} /\ members = {}
  /\ IdleRun /\ IdleCacheSpec /\ IdleCmpSpec /\ IdleDupSpec /\ IdleHeapSpec
  /\ \E label \in LabelDies, origin \in OriginDies :
       fv = [pc |-> "lookup", label |-> label, origin |-> origin,
             name |-> NULL, attrib |-> NoAttr, origin_holder |-> "null",
             lookups |-> 0, name_from |-> "label", attrib_from |-> "label",
             bad_deref |-> FALSE, calls |-> <<>>]

LabelLookup ==
  /\ fv.pc = "lookup"
  /\ fv' = label_lookup(fv)
  /\ UnchangedByFrameSpec

LabelOrigin ==
  /\ fv.pc = "origin"
  /\ \E ub \in UbValues : fv' = label_origin(fv, ub)
  /\ UnchangedByFrameSpec

LabelApply ==
  /\ fv.pc = "apply"
  /\ fv' = label_apply(fv)
  /\ UnchangedByFrameSpec

NextLabel == LabelLookup \/ LabelOrigin \/ LabelApply

SpecLabel == InitLabel /\ [][NextLabel]_vars

----------------------------------------------------------------------------
(* Properties *)

\* number of times the tag-specific handler of o was entered
Entered(o) == Cardinality({i \in DOMAIN trace : trace[i] = o})

\* C1: once a dispatch of a DIE through try_visit_die has returned, a
\* further dispatch of that DIE leaves the cache as it is and does not
\* enter the tag-specific handler.
C1_SecondDispatchIdle ==
  [][(Running /\ Top.pc = "call" /\ Top.off \in returned)
       => (cache' = cache /\ trace' = trace)]_vars

\* C2: cache_type writes {Type, ordinal, pending} on an absent or Useless
\* entry and touches nothing else; it leaves a Type or Variable entry as it
\* is; hence every Type entry carries the ordinal and pending flag of the
\* first cache_type that found the offset absent or useless.
C2_FirstMarkWins ==
  /\ lastOp.op = "type" =>
       cache = IF lastOp.before[lastOp.off].type \in {"none", DIE_USELESS}
               THEN [lastOp.before EXCEPT ![lastOp.off] =
                       [type |-> DIE_TYPE, ordinal |-> lastOp.ordinal,
                        second_pass |-> lastOp.second_pass]]
               ELSE lastOp.before
  /\ \A o \in DOMAIN cache : cache[o].type = DIE_TYPE => cache[o] = firstMark[o]

\* a cache_type call with other arguments on an offset that is already a Type
C2_Witness ==
  /\ lastOp.op = "type"
  /\ lastOp.before[lastOp.off].type = DIE_TYPE
  /\ lastOp.before[lastOp.off].ordinal # lastOp.ordinal
  /\ \E o \in DOMAIN cache : o # lastOp.off /\ cache[o].type = DIE_VAR

\* C3: cache_useless creates a Useless entry for an absent offset only,
\* changes no existing Useless, Type or Variable entry and no other offset,
\* and calling it again changes nothing.
C3_UselessNoOp ==
  /\ lastOp.op = "useless" =>
       cache = IF lastOp.before[lastOp.off].type = "none"
               THEN [lastOp.before EXCEPT ![lastOp.off] =
                       [type |-> DIE_USELESS, ordinal |-> 0, second_pass |-> FALSE]]
               ELSE lastOp.before
  /\ \A o \in DOMAIN cache :
       cache_useless(cache_useless(cache, o), o) = cache_useless(cache, o)

\* a cache_useless call on an offset that is already a Type
C3_Witness ==
  /\ lastOp.op = "useless"
  /\ lastOp.before[lastOp.off].type = DIE_TYPE
  /\ lastOp.before[lastOp.off].second_pass

\* C4: a tag-specific handler that returns normally has made exactly one
\* cache_type / cache_useless call on its DIE, which has a cache entry.
C4_HandlerMarksOnce ==
  ret.how = "normal" => (ret.marks = 1 /\ in_cache(cache, ret.off))

\* C5: when a handler throws a DieException, the DIE has a Useless cache
\* entry once try_visit_die has returned.
C5_ThrowMarksUseless ==
  ret.how = "throw" => cache[ret.off].type = DIE_USELESS

\* C6: when the traversals are over the worklist is empty and every DIE of
\* the trees has been popped, whatever failed on the way.
C6_TraversalComplete ==
  tpc \in {"second", "done"} => (queue = <<>> /\ popped = DOMAIN dies)

\* C7: the tag-specific handler of a DIE is entered at most once per run.
C7_HandlerOnce == \A o \in DOMAIN dies : Entered(o) <= 1

\* the {name: value} set of the enumerator children of o
DiePairs(o) ==
  {[n |-> dies[k].name, v |-> to_uval(dies[k].val)] :
     k \in {dies[o].kids[i] : i \in {j \in DOMAIN dies[o].kids :
                                      dies[dies[o].kids[j]].tag = "DW_TAG_enumerator"}}}

\* the handler of a was entered before the handler of b
EnteredBefore(a, b) ==
  \E i, j \in DOMAIN trace : i < j /\ trace[i] = a /\ trace[j] = b

\* C8: of two processed enumerations of the same name, identical
\* enumerators give both the same cached ordinal; a shared enumerator name
\* with another value gives the second one a distinct enum of its own,
\* registered under the name with '_' appended, whose ordinal is cached.
C8_EnumDedup ==
  \A a, b \in DOMAIN dies :
    ( /\ dies[a].tag = "DW_TAG_enumeration_type" /\ dies[b].tag = "DW_TAG_enumeration_type"
      /\ a # b /\ dies[a].name = dies[b].name /\ dies[a].name # NULL
      /\ EnteredBefore(a, b) /\ in_cache(cache, a) /\ in_cache(cache, b) )
    => /\ DiePairs(a) = DiePairs(b) =>
            (cache[a].type = DIE_TYPE /\ cache[b] = cache[a])
       /\ (\E x \in DiePairs(a), y \in DiePairs(b) : x.n = y.n /\ x.v # y.v) =>
            /\ cache[b].type = DIE_TYPE /\ cache[b].ordinal # cache[a].ordinal
            /\ cache[b].ordinal \in DOMAIN types
            /\ types[cache[b].ordinal].name = dies[b].name \o "_"
            /\ is_type_enum(types[cache[b].ordinal].ty)

\* C9: for an existing enum, EnumCmp::equal answers true exactly when the
\* {name: value} set of the DIE's enumerators is the set of the enum's
\* constants.
C9_EnumEqualIffSameSet ==
  (cmp.pc = "done" /\ ~cmp.exc /\ types # <<>> /\ dies[1].tag = "DW_TAG_enumeration_type")
    => (cmp.ret <=> DiePairs(1) = enum_consts(consts, 1))

\* the {name: offset} set of the member children of o, offsets dropped
\* for a union
DieMembers(o, isUnion) ==
  {[n |-> dies[k].name, o |-> IF isUnion THEN 0 ELSE dies[k].moff] :
     k \in {dies[o].kids[i] : i \in DOMAIN dies[o].kids}}

\* C10: for an existing structure or union, StrucCmp::equal answers true
\* exactly when the DIE is of the same kind and its members are the
\* entity's members (by name and offset for structures, by name for unions).
C10_StrucEqualIffSameMembers ==
  (cmp.pc = "done" /\ ~cmp.exc /\ types # <<>>
     /\ dies[1].tag \in {"DW_TAG_structure_type", "DW_TAG_union_type"})
    => LET hostUnion == is_union(types, 1)
           dieUnion == dies[1].tag = "DW_TAG_union_type"
       IN cmp.ret <=>
            /\ hostUnion = dieUnion
            /\ DieMembers(1, dieUnion) =
                 {[n |-> x.n, o |-> IF hostUnion THEN 0 ELSE x.o] : x \in members}

Registered(t) == {i \in DOMAIN t : t[i].ty # <<>>}

\* C12: a set_simple_die_type call with the name and the bytes of the call
\* before it answers the same ordinal and registers nothing; a call with a
\* name that is bound to other bytes answers another ordinal and leaves the
\* existing type as it is.
C12_SimpleReuseOrAllocate ==
  (dup.pc = "done" /\ dup.op = "simple" /\ dup.name # NULL) =>
    /\ (dup.prev.op = "simple" /\ dup.prev.name = dup.name /\ dup.prev.bytes = dup.bytes) =>
         /\ dup.id = dup.prev.id
         /\ Registered(types) = Registered(dup.before)
         /\ Cardinality({i \in DOMAIN types : types[i] = types[dup.id]}) = 1
    /\ \A e \in DOMAIN dup.before :
         (dup.before[e].name = dup.name /\ dup.before[e].ty \notin {<<>>, dup.bytes}) =>
           (dup.id # e /\ types[e] = dup.before[e])

\* the second of two equal calls on a name that is bound to other bytes:
\* the type registered as T_ by the first call is found again
C12_Witness ==
  /\ dup.pc = "done" /\ dup.op = "simple" /\ dup.name = "T"
  /\ dup.prev = [op |-> "simple", name |-> "T", bytes |-> dup.bytes, id |-> dup.id]
  /\ dup.new_name = "T_" /\ dup.iters = 1
  /\ \E e \in DOMAIN dup.before : dup.before[e].name = "T" /\ dup.before[e].ty # dup.bytes

\* the first DW_TAG_subrange_type child of o, 0 when there is none
SubrangeOf(o) ==
  LET ks == {i \in DOMAIN dies[o].kids :
               dies[dies[o].kids[i]].tag = "DW_TAG_subrange_type"}
  IN IF ks = {} THEN 0
     ELSE dies[o].kids[CHOOSE i \in ks : \A j \in ks : i <= j]

\* C13: an array DIE cached as a type is registered under the name of its
\* element type followed by [N], N the upper bound of its subrange child
\* as read, and by [] exactly when it has no subrange child or the child
\* has no readable upper bound.
C13_ArrayName ==
  \A o \in DOMAIN dies :
    ( /\ dies[o].tag = "DW_TAG_array_type" /\ cache[o].type = DIE_TYPE
      /\ dies[o].type \in DOMAIN dies /\ cache[dies[o].type].type = DIE_TYPE )
    => LET elem == types[cache[dies[o].type].ordinal].name
           sr == SubrangeOf(o)
           bound == IF sr # 0 /\ dies[sr].upper # NoAttr
                    THEN ToString(dies[sr].upper) ELSE ""
       IN types[cache[o].ordinal].name = elem \o "[" \o bound \o "]"

\* the suffix process_typed_modifier appends for a modifier tag
ModifierSuffix(tag) ==
  CASE tag = "DW_TAG_const_type" -> " const"
    [] tag = "DW_TAG_volatile_type" -> " volatile"
    [] OTHER -> " *"

\* C14: when the handler of a const, volatile or pointer DIE returns and
\* the DIE it refers to is cached as a type named T, the modifier DIE is
\* cached as a type whose registered name is T followed by " const",
\* " volatile" or " *".
C14_ModifierName ==
  \A o \in DOMAIN dies :
    ( /\ ret.off = o /\ ret.how = "normal" /\ dies[o].tag \in ModifierTags
      /\ dies[o].type \in DOMAIN dies /\ cache[dies[o].type].type = DIE_TYPE
      /\ get_numbered_type_name(types, cache[dies[o].type].ordinal) # NULL )
    => /\ cache[o].type = DIE_TYPE
       /\ cache[o].ordinal \in DOMAIN types
       /\ types[cache[o].ordinal].name =
            types[cache[dies[o].type].ordinal].name \o ModifierSuffix(dies[o].tag)

\* the pointer over the const over "int" has been registered
C14_Witness ==
  \E o \in DOMAIN dies :
    /\ ret.off = o /\ ret.how = "normal" /\ dies[o].tag = "DW_TAG_pointer_type"
    /\ dies[o].type \in DOMAIN dies /\ dies[dies[o].type].tag = "DW_TAG_const_type"
    /\ cache[o].type = DIE_TYPE /\ cache[o].ordinal \in DOMAIN types
    /\ types[cache[o].ordinal].name = "int const *"
    /\ cache[dies[o].type].type = DIE_TYPE
    /\ types[cache[dies[o].type].ordinal].name = "int const"

\* the member children of o whose type DIE comes after o
LaterMembers(o) ==
  {k \in {dies[o].kids[i] : i \in DOMAIN dies[o].kids} :
     /\ dies[k].tag = "DW_TAG_member"
     /\ dies[k].type \in DOMAIN dies /\ dies[k].type > o}

\* C15: a complete structure with a member whose type is defined later is
\* cached pending when do_second_pass starts; when do_second_pass is over
\* it is cached not pending and these members are attached with the
\* ordinal their type DIE is cached with.
C15_PendingRepaired ==
  \A o \in DOMAIN dies :
    ( /\ dies[o].tag = "DW_TAG_structure_type" /\ ~dies[o].decl
      /\ LaterMembers(o) # {} /\ cache[o].type = DIE_TYPE )
    => /\ (tpc = "second" /\ examined = <<>>) => cache[o].second_pass
       /\ tpc = "done" =>
            /\ ~cache[o].second_pass
            /\ \A k \in LaterMembers(o) :
                 /\ cache[dies[k].type].type = DIE_TYPE
                 /\ \E x \in members :
                      /\ x.s = cache[o].ordinal /\ x.n = dies[k].name
                      /\ x.t = cache[dies[k].type].ordinal

\* the signed operand that an lr_number holds (the sleb128 operand of
\* DW_OP_fbreg is stored in an unsigned field)
operand_of(lr_number) ==
  IF lr_number >= 2 ^ (DwarfBits - 1) THEN lr_number - 2 ^ DwarfBits
  ELSE lr_number

\* indexes of the frame-base areas whose range contains the range of the
\* visited location
ContainingAreas ==
  {k \in DOMAIN fv.offset_areas :
     /\ fv.offset_areas[k].startEA <= fv.locdesc.ld_lopc
     /\ fv.locdesc.ld_hipc <= fv.offset_areas[k].endEA}

\* C16: for a variable located by a single DW_OP_fbreg entry of a location
\* list, every stack offset handed to add_stkvar2 is offset + operand of the
\* (first) frame-base area whose range contains the range of the location,
\* the operand taken as a signed number: the exact sum when it fits sval_t,
\* the sum reduced to the width of sval_t otherwise.
C16_FbregListOffset ==
  ( /\ fv.pc = "done" /\ fv.locdesc.ld_cents = 1
    /\ fv.locdesc.lr_atom = "DW_OP_fbreg" /\ fv.locdesc.ld_from_loclist )
  => \A i \in DOMAIN fv.calls :
       fv.calls[i].fn = "add_stkvar2" =>
         /\ ContainingAreas # {}
         /\ LET k == CHOOSE x \in ContainingAreas :
                       \A y \in ContainingAreas : x <= y
                sum == fv.offset_areas[k].offset + operand_of(fv.locdesc.lr_number)
            IN /\ fv.calls[i].offset = ((sum - MinSval) % (2 ^ SvalBits)) + MinSval
               /\ sum \in MinSval..MaxSval => fv.calls[i].offset = sum

\* area [0x10,0x20) offset -8, variable [0x10,0x18) operand 4: offset -4
C16_Witness ==
  /\ fv.pc = "done"
  /\ fv.offset_areas = <<OffsetArea(16, 32, 0 - 8)>>
  /\ fv.locdesc = [ld_cents |-> 1, ld_from_loclist |-> TRUE, ld_lopc |-> 16,
                   ld_hipc |-> 24, lr_atom |-> "DW_OP_fbreg", lr_number |-> 4]
  /\ fv.calls = <<StkVar("v", 0 - 4, "0", 0)>>

\* C17: a location description of zero or several entries, or a single
\* entry whose atom is none of reg0..reg8, breg5, fbreg, makes
\* visit_frame_var return normally without a host call (no add_regvar, no
\* add_stkvar2, no set_member_tinfo) and with the frame as it was.
C17_UnsupportedLocationSkipped ==
  ( /\ fv.pc # "idle"
    /\ \/ fv.locdesc.ld_cents # 1
       \/ fv.locdesc.lr_atom \notin RegAtoms \cup StackAtoms )
  => fv.pc = "done" /\ fv.calls = <<>> /\ fv.frame = fv.frame0

C17_Witness ==
  /\ fv.pc = "done" /\ fv.var.name = "v" /\ fv.var.type = "plain"
  /\ fv.has_frame /\ fv.frame0 = {} /\ fv.offset_areas # <<>>
  /\ fv.locdesc.ld_cents = 1 /\ fv.locdesc.ld_from_loclist
  /\ fv.locdesc.lr_atom = "DW_OP_breg4"
\* positions of the log where allocation id is acquired / released
AcquiredAt(id) ==
  {i \in DOMAIN heap.log : heap.log[i].ev = "acquire" /\ heap.log[i].id = id}
DeallocAt(id) ==
  {i \in DOMAIN heap.log : heap.log[i].ev = "dealloc" /\ heap.log[i].id = id}

\* no allocation is released twice or before it exists, and once the holder
\* is destroyed each one has been released
ReleasedExactlyOnce ==
  \A id \in 1..(heap.n - 1) :
    /\ Cardinality(DeallocAt(id)) <= 1
    /\ \A i \in DeallocAt(id) : \A j \in AcquiredAt(id) : j < i
    /\ heap.pc = "destroyed" => DeallocAt(id) # {}

\* C18: every allocation the decoder made for a holder (DIE, name string,
\* attribute handles, list / locdesc / loc-block of a location list) is
\* released exactly once, and of two allocations held at the same time the
\* one acquired later is released first, whether the accessors returned or
\* threw.
C18_ReleasedOnceInReverseOrder ==
  /\ ReleasedExactlyOnce
  /\ heap.pc = "destroyed" =>
       \A a, b \in 1..(heap.n - 1) :
         \A ra \in DeallocAt(a), rb \in DeallocAt(b), ab \in AcquiredAt(b) :
           (a < b /\ ab < ra) => rb < ra
\* number of active try_visit_die invocations on DIE o
ActiveOn(o) == Cardinality({i \in DOMAIN stack : stack[i].off = o})

\* C19: the chain process_structure -> try_visit_die(member type) ->
\* look_ref_type -> try_visit_die(...) stays bounded on every DIE graph,
\* cyclic and anonymous ones included: no DIE has more than two active
\* invocations at a time and the nesting never reaches the depth at which
\* the model stops following it.
C19_NestedResolutionBounded ==
  /\ ~overflow
  /\ \A o \in DOMAIN dies : ActiveOn(o) <= 2
\* the DW_TAG_member children of o
MemberDies(o) ==
  {k \in {dies[o].kids[i] : i \in DOMAIN dies[o].kids} :
     dies[k].tag = "DW_TAG_member"}

CompleteStructure(o) ==
  dies[o].tag = "DW_TAG_structure_type" /\ ~dies[o].decl

\* this step is the normal return of an invocation of process_structure
\* on o that has resolved the types of the members of o
StructureReturns(o) ==
  /\ stack # <<>> /\ Top.off = o /\ Top.pc = "member" /\ CompleteStructure(o)
  /\ stack' = Front(stack) /\ ret'.how = "normal"

\* C20: a cache entry is pending only if it is the Type entry of a complete
\* structure, and it becomes pending only when process_structure returns
\* for that structure; when process_structure returns for a complete
\* structure whose member types went through the nested resolution, the
\* structure has a Type entry, pending exactly if some member type has no
\* Type entry then.
C20_PendingIffUnresolvedMember ==
  [][ \A o \in DOMAIN dies :
        /\ cache'[o].second_pass =>
             cache'[o].type = DIE_TYPE /\ CompleteStructure(o)
        /\ (~cache[o].second_pass /\ cache'[o].second_pass) => StructureReturns(o)
        /\ StructureReturns(o) =>
             /\ cache'[o].type = DIE_TYPE
             /\ cache'[o].second_pass <=>
                  \E k \in MemberDies(o) : cache'[dies[k].type].type # DIE_TYPE ]_vars

\* struct S { int v; struct S *next; } has just been cached pending
C20_Witness ==
  /\ dies = U_self("S").dies /\ ret = [off |-> 2, how |-> "normal", marks |-> 1]
  /\ stack = <<>>
  /\ cache[2].type = DIE_TYPE /\ cache[2].second_pass
  /\ cache[6].type = DIE_TYPE /\ cache[5].type # DIE_TYPE
\* this step is the handler of process_structure entered on the declared
\* structure o
DeclarationHandled(o) ==
  /\ stack # <<>> /\ Top.off = o /\ Top.pc = "call"
  /\ dies[o].tag = "DW_TAG_structure_type" /\ dies[o].decl
  /\ trace' = Append(trace, o)

\* C21: process_structure on a structure with DW_AT_declaration registers
\* an opaque (void) type, caches the DIE as Type, not pending, and returns
\* at once: no nested visit, no host structure, no member added, and the
\* cache entries of its member children and of their types are untouched.
C21_DeclarationIsOpaque ==
  [][ \A o \in DOMAIN dies :
        DeclarationHandled(o) =>
          /\ stack' = Front(stack) /\ ret'.how = "normal"
          /\ cache'[o].type = DIE_TYPE /\ ~cache'[o].second_pass
          /\ cache'[o].ordinal \in DOMAIN types'
          /\ types'[cache'[o].ordinal].ty = Byte({"BTF_VOID"})
          /\ \A i \in DOMAIN types' : ~is_type_struct(types'[i].ty) \/ i \in DOMAIN types
          /\ members' = members
          /\ \A k \in DOMAIN dies : k # o => cache'[k] = cache[k] ]_vars

C21_Witness ==
  /\ dies = U_decl.dies /\ ret = [off |-> 2, how |-> "normal", marks |-> 1]
  /\ cache[2] = [type |-> DIE_TYPE, ordinal |-> 1, second_pass |-> FALSE]
  /\ types = <<[name |-> "T", ty |-> Byte({"BTF_VOID"})]>>
  /\ cache[3].type = "none" /\ cache[4].type = "none" /\ members = {}
\* the entity i of the database the call started with is structurally
\* equal to the DIE the call is made for
EqualEntity(i) ==
  IF dup.op = "enum"
  THEN is_type_enum(dup.before[i].ty) /\ enum_consts(consts, i) = DiePairs(1)
  ELSE /\ is_type_struct(dup.before[i].ty)
       /\ {[n |-> x.n, o |-> x.o] : x \in {y \in members : y.s = i}}
            = DieMembers(1, FALSE)

\* the k-th name of the chain name_, name__, ... held an equal entity /
\* was free when the call started
EqualAt(k) ==
  \E i \in DOMAIN dup.before :
    dup.before[i].name = dup.name \o Underscores(k) /\ EqualEntity(i)
FreeAt(k) == ~NameUsed(dup.before, dup.name \o Underscores(k))

\* C22: when the natural name is taken, add_dup_enum / add_dup_struc end
\* at the first name of the chain name_, name__, ... that holds a
\* structurally equal entity or is free: an equal entity is reused and
\* nothing is created, a free name gets the one new entity.
C22_FirstEqualOrFreeName ==
  (dup.pc = "done" /\ dup.op \in {"enum", "struc"} /\ dup.iters >= 1)
  => LET k == dup.iters
     IN /\ dup.new_name = dup.name \o Underscores(k)
        /\ EqualAt(k) \/ FreeAt(k)
        /\ \A j \in 1..(k - 1) : ~EqualAt(j) /\ ~FreeAt(j)
        /\ IF EqualAt(k)
           THEN /\ types = dup.before /\ dup.id \in DOMAIN dup.before
                /\ dup.before[dup.id].name = dup.new_name /\ EqualEntity(dup.id)
           ELSE /\ dup.id = Len(dup.before) + 1 /\ Len(types) = dup.id
                /\ types[dup.id].name = dup.new_name

\* the enumerator children of an enumeration
Enumerators(o) ==
  {dies[o].kids[i] : i \in DOMAIN dies[o].kids} \cap
    {k \in DOMAIN dies : dies[k].tag = "DW_TAG_enumerator"}

\* C23: once an enumeration DIE has its Type entry (process_enum has
\* returned), every enumerator child DIE has a Useless entry, whether the
\* enum was created or an existing equal enum was reused.
C23_EnumeratorsUseless ==
  \A o \in DOMAIN dies :
    (dies[o].tag = "DW_TAG_enumeration_type" /\ cache[o].type = DIE_TYPE)
      => \A k \in Enumerators(o) : cache[k].type = DIE_USELESS

\* offset + operand as an sval_t
SvalSum(offset, lr_number) ==
  (((offset + operand_of(lr_number)) - MinSval) % (2 ^ SvalBits)) + MinSval

\* C24: for a variable located by a single DW_OP_fbreg entry, every stack
\* offset handed to add_stkvar2 is the stack base of the frame (OffsetAreas
\* m_base) plus the operand when the subprogram's frame base is a simple
\* expression, and offset + operand of the first containing area when the
\* frame base is a location list, whatever the origin of the variable's own
\* location.
C24_RuleChosenByFrameBase ==
  ( /\ fv.pc = "done" /\ fv.locdesc.ld_cents = 1
    /\ fv.locdesc.lr_atom = "DW_OP_fbreg" )
  => \A i \in DOMAIN fv.calls :
       fv.calls[i].fn = "add_stkvar2" =>
         IF ~fv.fb_from_loclist
         THEN fv.calls[i].offset = SvalSum(fv.m_base, fv.locdesc.lr_number)
         ELSE /\ ContainingAreas # {}
              /\ LET k == CHOOSE x \in ContainingAreas :
                            \A y \in ContainingAreas : x <= y
                 IN fv.calls[i].offset =
                      SvalSum(fv.offset_areas[k].offset, fv.locdesc.lr_number)

\* C25: for a named variable located by a single DW_OP_fbreg entry of a
\* location list, in a function with a frame that has no member of that
\* name: when no frame-base area contains the range of the location (or
\* there is no area at all) the visitor returns normally without a host call
\* and leaves the frame as it was; otherwise the first containing area in
\* list order supplies the offset of the one add_stkvar2 call, unless the
\* variable's type reference cannot be read.
C25_FirstContainingAreaOrNothing ==
  ( /\ fv.pc # "idle" /\ fv.var.name # NULL /\ fv.locdesc.ld_cents = 1
    /\ fv.locdesc.lr_atom = "DW_OP_fbreg" /\ fv.locdesc.ld_from_loclist
    /\ fv.has_frame /\ ~get_member_by_name(fv.frame0, fv.var.name) )
  => IF ContainingAreas = {}
     THEN fv.pc = "done" /\ fv.calls = <<>> /\ fv.frame = fv.frame0
     ELSE LET k == CHOOSE x \in ContainingAreas :
                     \A y \in ContainingAreas : x <= y
              offset == SvalSum(fv.offset_areas[k].offset, fv.locdesc.lr_number)
          IN IF fv.var.type = "badform"
             THEN fv.pc = "throw" /\ fv.calls = <<>> /\ fv.frame = fv.frame0
             ELSE /\ fv.pc = "done"
                  /\ fv.calls # <<>>
                  /\ fv.calls[1].fn = "add_stkvar2"
                  /\ fv.calls[1].name = fv.var.name
                  /\ fv.calls[1].offset = offset
                  /\ \A i \in DOMAIN fv.calls :
                       fv.calls[i].fn = "add_stkvar2" => i = 1

\* areas <<[0x10,0x20) -8, [0x18,0x20) 7>>, variable [0x18,0x20) operand 2:
\* both areas contain the range, the first one gives -6
C25_Witness ==
  /\ fv.pc = "done"
  /\ fv.offset_areas = <<OffsetArea(16, 32, 0 - 8), OffsetArea(24, 32, MaxSval)>>
  /\ fv.locdesc = [ld_cents |-> 1, ld_from_loclist |-> TRUE, ld_lopc |-> 24,
                   ld_hipc |-> 32, lr_atom |-> "DW_OP_fbreg", lr_number |-> 2]
  /\ fv.has_frame /\ fv.frame0 = {}
  /\ fv.calls = <<StkVar("v", 0 - 6, "0", 0)>>

\* area [0x18,0x20) only, variable [0x10,0x18): nothing is registered
C25_NoAreaWitness ==
  /\ fv.pc = "done" /\ fv.var.name = "v" /\ fv.var.type = "plain"
  /\ fv.offset_areas = <<OffsetArea(24, 32, MaxSval)>>
  /\ fv.locdesc = [ld_cents |-> 1, ld_from_loclist |-> TRUE, ld_lopc |-> 16,
                   ld_hipc |-> 24, lr_atom |-> "DW_OP_fbreg", lr_number |-> 2]
  /\ fv.has_frame /\ fv.frame0 = {} /\ fv.calls = <<>>

\* DWARF register numbers of the i386 ABI
RegisterOf ==
  [a \in RegAtoms |->
     IF a = "DW_OP_reg0" THEN "eax" ELSE IF a = "DW_OP_reg1" THEN "ecx"
     ELSE IF a = "DW_OP_reg2" THEN "edx" ELSE IF a = "DW_OP_reg3" THEN "ebx"
     ELSE IF a = "DW_OP_reg4" THEN "esp" ELSE IF a = "DW_OP_reg5" THEN "ebp"
     ELSE IF a = "DW_OP_reg6" THEN "esi" ELSE IF a = "DW_OP_reg7" THEN "edi"
     ELSE "eip"]

\* C26: for a named variable whose single location entry is one of
\* DW_OP_reg0..reg8 the visitor returns normally with the frame as it was
\* and without add_stkvar2 / set_member_tinfo; it calls add_regvar, once,
\* with the register of the atom over [lopc + cu_low_pc, hipc + cu_low_pc),
\* exactly when the location came from a location list.
C26_RegisterVariableIffFromList ==
  ( /\ fv.pc # "idle" /\ fv.var.name # NULL /\ fv.locdesc.ld_cents = 1
    /\ fv.locdesc.lr_atom \in RegAtoms )
  => /\ fv.pc = "done"
     /\ fv.frame = fv.frame0
     /\ fv.calls =
          IF fv.locdesc.ld_from_loclist
          THEN <<[fn |-> "add_regvar",
                  lo |-> fv.locdesc.ld_lopc + fv.cu_low_pc,
                  hi |-> fv.locdesc.ld_hipc + fv.cu_low_pc,
                  reg |-> RegisterOf[fv.locdesc.lr_atom],
                  name |-> fv.var.name]>>
          ELSE <<>>

\* DW_OP_reg5 over [0x10,0x18) of a location list, unit loaded at 0x1000
C26_Witness ==
  /\ fv.pc = "done" /\ fv.var.name = "v" /\ fv.cu_low_pc = 4096
  /\ fv.has_frame /\ fv.frame0 = {}
  /\ fv.locdesc.ld_cents = 1 /\ fv.locdesc.ld_from_loclist
  /\ fv.locdesc.lr_atom = "DW_OP_reg5"
  /\ fv.locdesc.ld_lopc = 16 /\ fv.locdesc.ld_hipc = 24
  /\ fv.calls = <<[fn |-> "add_regvar", lo |-> 4112, hi |-> 4120,
                   reg |-> "ebp", name |-> "v"]>>

\* the same variable with a plain block location: no host call at all
C26_BlockWitness ==
  /\ fv.pc = "done" /\ fv.var.name = "v" /\ fv.has_frame /\ fv.frame0 = {}
  /\ fv.locdesc.ld_cents = 1 /\ ~fv.locdesc.ld_from_loclist
  /\ fv.locdesc.lr_atom = "DW_OP_reg5" /\ fv.calls = <<>>

\* the label DIE misses exactly one of name and DW_AT_low_pc and its
\* DW_AT_abstract_origin leads to a DIE
OriginObtained ==
  /\ (fv.label.name = NULL) # (fv.label.low_pc = NoAttr)
  /\ fv.label.origin = "ok"

\* name and address available after the lookup: the label's own, else the
\* origin's
NameAvailable ==
  IF fv.label.name # NULL THEN fv.label.name
  ELSE IF OriginObtained THEN fv.origin.name ELSE NULL

AddrAvailable ==
  IF fv.label.low_pc # NoAttr THEN fv.label.low_pc
  ELSE IF OriginObtained THEN fv.origin.low_pc ELSE NoAttr

\* C27: process_label looks the abstract origin up at most once and never
\* calls through an origin holder that is empty or was released; when it
\* returns it has called set_name, once, exactly when a non-empty name and a
\* low-pc attribute are available, with the label's own name and address
\* where the label has them and the origin's otherwise; a label that has
\* neither is left alone without a lookup; it throws only when the origin
\* reference of a label missing one of the two cannot be followed, and then
\* names nothing.
C27_LabelNamedIffNameAndAddress ==
  /\ fv.lookups <= 1
  /\ ~fv.bad_deref
  /\ (fv.label.name = NULL /\ fv.label.low_pc = NoAttr) => fv.lookups = 0
  /\ fv.pc = "done" =>
       fv.calls = IF NameAvailable # NULL /\ AddrAvailable # NoAttr
                  THEN <<[fn |-> "set_name", ea |-> AddrAvailable,
                          name |-> NameAvailable]>>
                  ELSE <<>>
  /\ fv.pc = "throw" =>
       /\ fv.calls = <<>>
       /\ (fv.label.name = NULL) # (fv.label.low_pc = NoAttr)
       /\ fv.label.origin \in {"badform", "nodie"}

\* a label without a name at 0x10 whose origin is named "O": the holder is
\* released after the name was read and the label's own address is used
C27_Witness ==
  /\ fv.pc = "done"
  /\ fv.label = [name |-> NULL, low_pc |-> 16, origin |-> "ok"]
  /\ fv.origin = [name |-> "O", low_pc |-> 32]
  /\ fv.origin_holder = "released" /\ fv.lookups = 1
  /\ fv.calls = <<[fn |-> "set_name", ea |-> 16, name |-> "O"]>>

\* a named label without an address: the address is read from the origin
C27_OriginAddressWitness ==
  /\ fv.pc = "done"
  /\ fv.label = [name |-> "L", low_pc |-> NoAttr, origin |-> "ok"]
  /\ fv.origin = [name |-> "O", low_pc |-> 32]
  /\ fv.origin_holder = "held"
  /\ fv.calls = <<[fn |-> "set_name", ea |-> 32, name |-> "L"]>>

\* offsets that have a cache entry
CachedOffsets == {o \in DOMAIN cache : cache[o].type # "none"}

\* do_second_pass runs after the last compilation unit, and its iterator
\* goes through the cache entries once, in increasing offset order
SecondPassOrdered ==
  /\ tpc \in {"second", "done"} =>
       cuIdx = Len(cus) /\ queue = <<>> /\ stack = <<>>
  /\ \A i, j \in DOMAIN examined : i < j => examined[i] < examined[j]
  /\ \A i \in DOMAIN examined : examined[i] \in CachedOffsets
  /\ tpc = "done" => {examined[i] : i \in DOMAIN examined} = CachedOffsets

\* the iteration of do_second_pass that examines the entry of o
Examines(o) ==
  /\ tpc = "second" /\ spIdx = o
  /\ examined' = Append(examined, o)

\* C28: do_second_pass starts after every compilation unit has been
\* traversed and examines each cache entry once, in strictly increasing
\* offset order; the iteration that examines a Type entry with pending =
\* true starts the resolution of that structure's members again (its
\* handler becomes active), and the entry is pending unless that resolves it.
C28_SecondPassReattemptsPending ==
  /\ []SecondPassOrdered
  /\ [][ \A o \in DOMAIN cache :
           ( /\ Examines(o)
             /\ cache[o].type = DIE_TYPE /\ cache[o].second_pass )
           => /\ stack' # <<>> /\ stack'[1].off = o
              /\ cache'[o].second_pass ]_vars

\* the handler of the complete structure o leaves by an exception
StructureThrows(o) ==
  /\ stack # <<>> /\ Top.off = o
  /\ dies[o].tag = "DW_TAG_structure_type" /\ ~dies[o].decl
  /\ stack' = Front(stack)
  /\ ret' = [off |-> o, how |-> "throw", marks |-> ret'.marks]

\* the host structure of the active invocation: the one add_struc made when
\* the handler was entered
OwnStruc ==
  IF Top.pc = "call" THEN Len(types) + 1 ELSE Top.sid

\* everything but the structure sid and the entry of o is as it was
OthersUnchanged(o, sid) ==
  /\ \A k \in DOMAIN cache : k # o => cache'[k] = cache[k]
  /\ \A i \in DOMAIN types : i # sid => (i \in DOMAIN types' /\ types'[i] = types[i])
  /\ \A i \in DOMAIN types' : i # sid => i \in DOMAIN types
  /\ consts' = consts
  /\ {m \in members' : m.s # sid} = {m \in members : m.s # sid}

\* C29: when the handler of a complete structure throws, the host database
\* afterwards holds no structure (and no member) made for that DIE, and the
\* cache entries, types, constants and members of everything else are as
\* they were before the throw.
C29_ThrowLeavesNoPartialStructure ==
  [][ \A o \in DOMAIN dies :
        StructureThrows(o) =>
          /\ ~(OwnStruc \in DOMAIN types' /\ is_type_struct(types'[OwnStruc].ty))
          /\ ~(\E m \in members' : m.s = OwnStruc)
          /\ OthersUnchanged(o, OwnStruc) ]_vars

\* the second half alone: a throw changes nothing outside the DIE
C29_ThrowLeavesOthersUnchanged ==
  [][ \A o \in DOMAIN dies :
        StructureThrows(o) => OthersUnchanged(o, OwnStruc) ]_vars

\* the DIEs below o
RECURSIVE Descendants(_)
Descendants(o) ==
  LET kids == {dies[o].kids[i] : i \in DOMAIN dies[o].kids}
  IN kids \cup UNION {Descendants(k) : k \in kids}

QueueSet == {queue[i] : i \in DOMAIN queue}

\* no sibling / child retrieval fails anywhere in the tree
NoFetchFails == \A o \in DOMAIN dies : ~dies[o].sibFail /\ ~dies[o].childFail

\* a step of do_dies_traversal that pushes DIEs other than a unit's root
Pushes == tpc # "cu" /\ Len(queue') > Len(queue)

\* the step that pops x and hands it to try_visit_die
Dispatches(x) == tpc = "pop" /\ tpc' = "visit" /\ cur' = x

\* C30: do_dies_traversal pushes only after try_visit_die has returned for
\* the popped DIE, the sibling below the child; it pops the back of the
\* worklist; no DIE is pushed that is in the worklist or was popped before;
\* a DIE under d is never dispatched after the next sibling of d, and when no
\* retrieval fails every DIE under d has been dispatched when the next
\* sibling of d is.
C30_PreOrderDepthFirst ==
  [][ /\ Pushes =>
           /\ stack = <<>> /\ cur \in popped /\ cur \in returned
           /\ LET new == SubSeq(queue', Len(queue) + 1, Len(queue'))
              IN /\ SubSeq(queue', 1, Len(queue)) = queue
                 /\ Len(new) <= 2
                 /\ Len(new) = 2 => new[1] # new[2] /\ new[2] = child_of(cur)
                                    /\ new[1] = sibling_of(cur)
                 /\ Len(new) = 1 => new[1] \in {child_of(cur), sibling_of(cur)}
                 /\ \A i \in DOMAIN new : new[i] \notin popped \cup QueueSet
      /\ \A x \in DOMAIN dies :
           Dispatches(x) =>
             /\ queue # <<>> /\ x = queue[Len(queue)] /\ queue' = Front(queue)
             /\ stack' = <<Frame(x)>>
             /\ \A d \in DOMAIN dies :
                  /\ x \in Descendants(d) => sibling_of(d) \notin popped \ {0}
                  /\ (x = sibling_of(d) /\ NoFetchFails) => Descendants(d) \subseteq popped
    ]_vars

\* two enumerations with two enumerators each: the second enumeration is
\* dispatched after both enumerators of the first
C30_Witness ==
  /\ dies = U_enum(2).dies
  /\ tpc = "visit" /\ cur = 5 /\ stack = <<Frame(5)>>
  /\ popped = {1, 2, 3, 4, 5} /\ queue = <<>>

====
